---- MODULE Spec2Model ----
(***************************************************************************)
(* Verification model of the contract-enforcing analysis workflow          *)
(* (DataAnalysisLCELWorkflow in agents/graphs/"lcel_workflow copy.py" and  *)
(* the graph of agents/graphs/temp.py).                                    *)
(*                                                                         *)
(* One run of the compiled graph is a state machine: pc names the node     *)
(* that executes next, every action is one node together with the router   *)
(* of its outgoing edge, and the remaining variables are the keys of the   *)
(* AgentState dictionary plus the caller-owned tables it refers to.        *)
(*                                                                         *)
(* Text is modelled as a sequence of one-character strings so that the     *)
(* substring tests, strip(), lower() and replace() of the routers are      *)
(* computed and not assumed. Generated code is a sequence of lines, a line *)
(* a sequence of tokens. An optional value (None or a value) is the empty  *)
(* sequence or a one-element sequence.                                     *)
(***************************************************************************)
EXTENDS Integers, Sequences, FiniteSets, TLC

VARIABLES
    pc,                      \* node the graph executes next, "END", or "Raised"
    last,                    \* node executed by the latest step ("" before the run)
    sheet,                   \* state["sheet"]: optional text
    query,                   \* state["messages"][-1]: text
    graph_type,              \* state["graph_type"]: optional text
    selected_sheets,         \* caller-owned tables: sequence of [name, table]
    analysis_classification, \* optional classification record
    analysis_type,           \* state["analysis_type"]
    df,                      \* state["df"]: [kind |-> "none" | "ref" | "own", ...]
    writer_request,          \* inputs of the latest synthesis service call, optional
    code_generation_result,  \* optional code artifact
    code_review_result,      \* optional review verdict
    first_review_result,     \* CodeReviewNode's review_result before the contract check
    review_attempts,         \* state["review_attempts"]
    max_review_attempts,     \* state["max_review_attempts"]
    review_calls,            \* number of invocations of the review service
    error_log,               \* state["error_log"]
    safe_code,               \* ExecNode's safe_code: optional text handed to exec()
    exec_outcome,            \* how the latest exec() of generated code ended
    execution_result,        \* optional value of analysis_results after exec
    analysis_result,         \* optional final analysis
    response_df,             \* optional table
    response,                \* the keys of state["response"] the run reports
    chains_present,          \* whether state.get("_chains") yields the chains
    run_output,              \* optional dict returned by graph.py's run_analysis
    invocation,              \* locals of invoke_chain_with_fallback, optional
    returned,                \* optional value returned by the latest call
    history,                 \* the calls made so far, with their outcomes
    now,                     \* time.time(), in seconds
    rate_limiter,            \* security.py RateLimiter object, optional
    ip_blocklist,            \* security.py IPBlocklist object, optional
    plots_file,              \* plots/visualization.html: absent or its writer
    runs,                    \* concurrent DataAnalysisWorkflow runs, by run id
    analysis_state,          \* graph.py's AnalysisState of the run, optional
    analysis_results,        \* routes/data_analysis.py analysis_results, by task id
    handlers,                \* position of each start_analysis request, by task id
    echart_code,             \* optional chart specification text
    echart_sample_code,      \* optional template text
    designed_echart_code     \* optional merged chart text

\* state outside the workflow state: the retry loop of base.py, the objects
\* of security.py, the clock, the plots directory and the runs sharing it
component_vars ==
    << invocation, returned, history, now, rate_limiter, ip_blocklist,
       plots_file, runs >>

\* the state of graph.py's workflow and of the routes of the analysis service
service_vars == << analysis_state, analysis_results, handlers >>

vars == << pc, last, sheet, query, graph_type, selected_sheets,
           analysis_classification, analysis_type, df, writer_request,
           code_generation_result,
           code_review_result, first_review_result, review_attempts,
           max_review_attempts, review_calls, error_log, safe_code,
           exec_outcome, execution_result, analysis_result,
           response_df, response, chains_present, run_output, echart_code,
           echart_sample_code, designed_echart_code, component_vars, service_vars >>

(***************************************************************************)
(* Bounds of the model.                                                    *)
(***************************************************************************)
\* largest max_review_attempts a run is started with
MaxAttemptsBound == 2

\* Code Review executions one run of the model may perform
MaxReviewRuns == 5

\* longest list handed to coerce_to_dataframe
MaxItems == 2

\* most lines of a code text handed to sanitize_code on its own
MaxCodeLines == 3

\* largest max_retries handed to invoke_chain_with_fallback
MaxRetries == 3

\* largest requests_per_minute of a RateLimiter
MaxPerMinute == 2

\* number of method calls on one security.py object
MaxCalls == 4

\* last reading of the clock, in seconds
MaxClock == 120

\* largest threshold of an IPBlocklist
MaxThreshold == 2

\* longest file name, in characters
MaxNameLen == 3

\* largest max_retries an AnalysisState is started with
MaxRetriesBound == 2

(***************************************************************************)
(* Optional values and text.                                               *)
(***************************************************************************)
None == << >>

Some(v) == << v >>

IsSome(o) == Len(o) > 0

Get(o) == o[1]

Letters ==
    << "a", "b", "c", "d", "e", "f", "g", "h", "i", "j", "k", "l", "m",
       "n", "o", "p", "q", "r", "s", "t", "u", "v", "w", "x", "y", "z" >>

Capitals ==
    << "A", "B", "C", "D", "E", "F", "G", "H", "I", "J", "K", "L", "M",
       "N", "O", "P", "Q", "R", "S", "T", "U", "V", "W", "X", "Y", "Z" >>

\* str.lower() on one character
LowerChar(c) ==
    IF \E i \in 1..26 : Capitals[i] = c
    THEN Letters[CHOOSE i \in 1..26 : Capitals[i] = c]
    ELSE c

\* str.lower()
Lower(s) == [i \in 1..Len(s) |-> LowerChar(s[i])]

\* str.replace("_", " ")
ReplaceUnderscore(s) == [i \in 1..Len(s) |-> IF s[i] = "_" THEN " " ELSE s[i]]

\* the characters str.strip() removes
Whitespace == { " ", "\t", "\n", "\r" }

RECURSIVE LStrip(_)
LStrip(s) == IF s # << >> /\ Head(s) \in Whitespace THEN LStrip(Tail(s)) ELSE s

RECURSIVE RStrip(_)
RStrip(s) ==
    IF s # << >> /\ s[Len(s)] \in Whitespace
    THEN RStrip(SubSeq(s, 1, Len(s) - 1)) ELSE s

\* str.strip()
Strip(s) == RStrip(LStrip(s))

\* Python's "sub in s" on text
Contains(sub, s) ==
    \/ sub = << >>
    \/ \E i \in 0..(Len(s) - Len(sub)) :
           s[i + 1] = sub[1] /\ SubSeq(s, i + 1, i + Len(sub)) = sub

W_back == << "b", "a", "c", "k" >>

W_office == << "o", "f", "f", "i", "c", "e" >>

W_call == << "c", "a", "l", "l" >>

W_center == << "c", "e", "n", "t", "e", "r" >>

W_leader == << "l", "e", "a", "d", "e", "r" >>

W_leadership == << "l", "e", "a", "d", "e", "r", "s", "h", "i", "p" >>

W_leaders == << "l", "e", "a", "d", "e", "r", "s" >>

W_retail == << "r", "e", "t", "a", "i", "l" >>

W_sales == << "s", "a", "l", "e", "s" >>

W_summary == << "s", "u", "m", "m", "a", "r", "y" >>

W_back_office == W_back \o << " " >> \o W_office

W_call_center == W_call \o << " " >> \o W_center


(***************************************************************************)
(* Inputs of a run: the texts, the caller's tables, the service responses. *)
(***************************************************************************)
T_BackOffice == << "B", "a", "c", "k", " ", "O", "f", "f", "i", "c", "e" >>

T_Leaders == << "L", "e", "a", "d", "e", "r", "s" >>

T_Misc == << "M", "i", "s", "c" >>

T_sheet_call == << "c", "a", "l", "l", "_", "c", "e", "n", "t", "e", "r" >>

T_sheet_retail == << " ", "R", "e", "t", "a", "i", "l", " " >>

T_sheet_xyz == << "x", "y", "z" >>

T_query_top == << "t", "o", "p", " ", "l", "e", "a", "d", "e", "r", "s" >>

T_query_count == << "c", "o", "u", "n", "t", " ", "r", "o", "w", "s" >>

T_fb_back == << "B", "a", "c", "k", "_", "O", "f", "f", "i", "c", "e", " ", "(", "f", "a", "l", "l", "b", "a", "c", "k", ")" >>

T_fb_call == << "C", "a", "l", "l", "_", "C", "e", "n", "t", "e", "r", " ", "(", "f", "a", "l", "l", "b", "a", "c", "k", ")" >>

T_fb_leaders == << "L", "e", "a", "d", "e", "r", "s", " ", "(", "f", "a", "l", "l", "b", "a", "c", "k", ")" >>

T_fb_retail == << "R", "e", "t", "a", "i", "l", " ", "(", "f", "a", "l", "l", "b", "a", "c", "k", ")" >>

T_summary_combined == << "S", "u", "m", "m", "a", "r", "y", " ", "(", "c", "o", "m", "b", "i", "n", "e", "d", ")" >>

T_Pie == << " ", "P", "i", "e", " " >>

\* a table: column names and rows of cells
Table(cols, rows) == [cols |-> cols, rows |-> rows]

EmptyTable == Table(<< >>, << >>)

TableA == Table(<< "Name", "Score" >>, << << 1, 90 >>, << 2, 70 >> >>)

TableB == Table(<< "Name", "Score" >>, << << 3, 50 >> >>)

\* selected_sheets mappings (insertion order kept)
NoSheets == << >>

OneSheet == << [name |-> T_Misc, table |-> TableA] >>

TwoSheets ==
    << [name |-> T_BackOffice, table |-> TableA],
       [name |-> T_Leaders, table |-> TableB] >>

\* the datasets and questions a run is started with
Request(sh, q, sheets) == [sheet |-> sh, query |-> q, selected_sheets |-> sheets]

Requests ==
    { Request(None, T_query_count, TwoSheets),
      Request(None, T_query_top, TwoSheets),
      Request(Some(T_sheet_call), T_query_count, TwoSheets),
      Request(Some(T_sheet_retail), T_query_top, OneSheet),
      Request(Some(T_sheet_xyz), T_query_top, OneSheet),
      Request(None, T_query_count, NoSheets) }

\* the chart hint and the chart template of the request, and whether the
\* chains attached by run() reach the nodes
ChartSetup(g, c, t) == [graph_type |-> g, chains |-> c, sample |-> t]

ChartSetups ==
    { ChartSetup(None, TRUE, Some("sample option")),
      ChartSetup(Some(T_Pie), TRUE, None),
      ChartSetup(Some(T_Pie), FALSE, Some("sample option")) }

\* what the classification chain may return; "fail" stands for a raised error
Classification(t, c, s) == [analysis_type |-> t, confidence |-> c, suggested_sheet |-> s]

ClassifyResponses ==
    { Classification("skill", 9, None), Classification("gap", 8, Some(T_Leaders)),
      Classification("count", 9, Some(W_summary)),
      Classification("summary", 7, None),
      Classification("comparison", 9, None), Classification("unknown", 6, None) }

\* no call of base.py or security.py is under way and no other run exists
ServicesIdle ==
    /\ analysis_state = None
    /\ analysis_results = << >>
    /\ handlers = << >>

ComponentsIdle ==
    /\ invocation = None
    /\ returned = None
    /\ history = << >>
    /\ now = 0
    /\ rate_limiter = None
    /\ ip_blocklist = None
    /\ plots_file = None
    /\ runs = << >>

(***************************************************************************)
(* State after DataAnalysisLCELWorkflow.run has seeded its defaults.       *)
(***************************************************************************)
Init ==
    /\ pc = "start"
    /\ last = ""
    /\ \E r \in Requests :
          /\ sheet = r.sheet
          /\ query = r.query
          /\ selected_sheets = r.selected_sheets
    /\ analysis_classification = None
    /\ analysis_type = ""
    /\ df = [kind |-> "none"]
    /\ writer_request = None
    /\ code_generation_result = None
    /\ code_review_result = None
    /\ first_review_result = None
    /\ review_attempts = 0
    /\ max_review_attempts \in 1..MaxAttemptsBound
    /\ review_calls = 0
    /\ error_log = << >>
    /\ safe_code = None
    /\ exec_outcome = ""
    /\ execution_result = None
    /\ analysis_result = None
    /\ response_df = None
    /\ response = [stage |-> "", status |-> "", error |-> None,
                   approved |-> None, attempt |-> 0]
    /\ \E c \in ChartSetups :
          /\ graph_type = c.graph_type
          /\ chains_present = c.chains
          /\ echart_sample_code = c.sample
    /\ echart_code = None
    /\ designed_echart_code = None
    /\ run_output = None
    /\ ComponentsIdle
    /\ ServicesIdle

(***************************************************************************)
(* Routers of the conditional edges.                                       *)
(***************************************************************************)
\* truth value of an optional text (None and "" are falsy)
Truthy(o) == IsSome(o) /\ Get(o) # << >>

analysis_router(atype) ==
    CASE atype = "skill" -> "Skill Analysis"
      [] atype = "gap" -> "Gap Analysis"
      [] atype = "count" -> "Count Analysis"
      [] atype = "summary" -> "Summary Analysis"
      [] atype = "comparison" -> "Comparison Analysis"
      [] OTHER -> "Summary Analysis"

AnalysisNodes ==
    { "Skill Analysis", "Gap Analysis", "Count Analysis", "Summary Analysis",
      "Comparison Analysis" }

\* variant: the suggested sheet is preferred to the explicit one
SheetVal_SuggestionFirst(sh, cls, q) ==
    LET suggested == IF IsSome(cls) /\ Truthy(Get(cls).suggested_sheet)
                     THEN ReplaceUnderscore(Lower(Strip(Get(Get(cls).suggested_sheet))))
                     ELSE << >>
        explicit == IF suggested = << >> /\ IsSome(sh) /\ Strip(Get(sh)) # << >>
                    THEN ReplaceUnderscore(Lower(Strip(Get(sh))))
                    ELSE suggested
    IN  IF explicit = << >> THEN Lower(q) ELSE explicit

\* sheet_val of sheet_router: explicit sheet, else the suggested sheet, else
\* the query text
SheetVal(sh, cls, q) ==
    LET explicit == IF IsSome(sh) /\ Strip(Get(sh)) # << >>
                    THEN ReplaceUnderscore(Lower(Strip(Get(sh))))
                    ELSE << >>
        suggested == IF explicit = << >> /\ IsSome(cls) /\ Truthy(Get(cls).suggested_sheet)
                     THEN ReplaceUnderscore(Lower(Strip(Get(Get(cls).suggested_sheet))))
                     ELSE explicit
    IN  IF suggested = << >> THEN Lower(q) ELSE suggested

sheet_router(sh, cls, q) ==
    LET sheet_val == SheetVal(sh, cls, q)
        normalized ==
            IF (Contains(W_back, sheet_val) /\ Contains(W_office, sheet_val))
                 \/ sheet_val = W_back_office THEN "back office"
            ELSE IF (Contains(W_call, sheet_val) /\ Contains(W_center, sheet_val))
                 \/ sheet_val = W_call_center THEN "call center"
            ELSE IF Contains(W_leader, sheet_val) \/ sheet_val = W_leaders THEN "leaders"
            ELSE IF Contains(W_retail, sheet_val) \/ Contains(W_sales, sheet_val)
                 \/ sheet_val = W_retail THEN "retail"
            ELSE IF Contains(W_summary, sheet_val) THEN "summary"
            ELSE "summary"
    IN  CASE normalized = "summary" -> "Summary Sheet"
          [] normalized = "back office" -> "Back Office Sheet"
          [] normalized = "call center" -> "Call Center Sheet"
          [] normalized = "leaders" -> "Leader Sheet"
          [] normalized = "retail" -> "Retails Sheet"
          [] OTHER -> "Summary Sheet"

SheetNodes ==
    { "Summary Sheet", "Back Office Sheet", "Call Center Sheet", "Leader Sheet",
      "Retails Sheet" }

\* the sheet_type each sheet node was constructed with
SheetTypeOf(node) ==
    CASE node = "Summary Sheet" -> "summary"
      [] node = "Back Office Sheet" -> "back_office"
      [] node = "Call Center Sheet" -> "call_center"
      [] node = "Leader Sheet" -> "leaders"
      [] node = "Retails Sheet" -> "retail"

(***************************************************************************)
(* StartNode: classification with a local fallback.                        *)
(***************************************************************************)
StartOk(c) ==
    /\ analysis_classification' = Some(c)
    /\ analysis_type' = c.analysis_type
    /\ sheet' = IF ~Truthy(sheet) /\ Truthy(c.suggested_sheet)
                THEN c.suggested_sheet ELSE sheet
    /\ response' = [response EXCEPT !.stage = "classification"]
    /\ error_log' = error_log

\* variant: the failure is logged and no classification is stored
StartFallback_Unclassified ==
    /\ error_log' = Append(error_log, "Classification error")
    /\ analysis_classification' = analysis_classification
    /\ analysis_type' = "unknown"
    /\ sheet' = sheet
    /\ response' = [response EXCEPT !.stage = "classification",
                                     !.error = Some("Classification error")]

StartFallback ==
    /\ error_log' = Append(error_log, "Classification error")
    /\ analysis_classification' = Some(Classification("unknown", 5, None))
    /\ analysis_type' = "unknown"
    /\ sheet' = sheet
    /\ response' = [response EXCEPT !.stage = "classification",
                                     !.error = Some("Classification error")]

StartNode ==
    /\ pc = "start"
    /\ \/ \E c \in ClassifyResponses : StartOk(c)
       \/ StartFallback
    /\ pc' = analysis_router(analysis_type')
    /\ last' = "start"
    /\ UNCHANGED << writer_request, first_review_result, safe_code, exec_outcome >>
    /\ UNCHANGED << query, graph_type, selected_sheets, df, code_generation_result,
                    code_review_result, review_attempts, max_review_attempts,
                    review_calls, execution_result, analysis_result, response_df,
                    chains_present, run_output, component_vars, service_vars, echart_code, echart_sample_code,
                    designed_echart_code >>

\* the five analysis-type nodes return the state as it is
AnalysisNode ==
    /\ pc \in AnalysisNodes
    /\ pc' = sheet_router(sheet, analysis_classification, query)
    /\ last' = pc
    /\ UNCHANGED << writer_request, first_review_result, safe_code, exec_outcome >>
    /\ UNCHANGED << sheet, query, graph_type, selected_sheets,
                    analysis_classification, analysis_type, df,
                    code_generation_result, code_review_result, review_attempts,
                    max_review_attempts, review_calls, error_log, execution_result,
                    analysis_result, response_df, response, chains_present, run_output, component_vars, service_vars,
                    echart_code, echart_sample_code, designed_echart_code >>

(***************************************************************************)
(* SheetLoaderNode: keyword match, positional fallback, or concatenation.  *)
(***************************************************************************)
Keywords(sheet_type) ==
    CASE sheet_type = "back_office" -> { W_back, W_office }
      [] sheet_type = "call_center" -> { W_call, W_center }
      [] sheet_type = "leaders" -> { W_leader, W_leadership }
      [] sheet_type = "retail" -> { W_retail, W_sales }

FallbackIdx(sheet_type) ==
    CASE sheet_type = "back_office" -> 0
      [] sheet_type = "call_center" -> 1
      [] sheet_type = "leaders" -> 2
      [] sheet_type = "retail" -> 3

\* f"{sheet_type.title()} (fallback)"
FallbackName(sheet_type) ==
    CASE sheet_type = "back_office" -> T_fb_back
      [] sheet_type = "call_center" -> T_fb_call
      [] sheet_type = "leaders" -> T_fb_leaders
      [] sheet_type = "retail" -> T_fb_retail

\* positions of the sheets whose lower-cased name contains a keyword
KeywordMatches(sheet_type, sheets) ==
    { i \in 1..Len(sheets) :
        \E k \in Keywords(sheet_type) : Contains(k, Lower(sheets[i].name)) }

Min(S) == CHOOSE x \in S : \A y \in S : x <= y

RECURSIVE ConcatRows(_)
ConcatRows(sheets) ==
    IF sheets = << >> THEN << >>
    ELSE Head(sheets).table.rows \o ConcatRows(Tail(sheets))

\* pd.concat(list(processed.values()), ignore_index=True): a new table
ConcatTables(sheets) == Table(sheets[1].table.cols, ConcatRows(sheets))

\* variant: without a keyword match the first table is taken when there is one
LoadSheet_FirstTable(sheet_type, sheets) ==
    IF sheet_type = "summary"
    THEN IF sheets # << >>
         THEN [df |-> [kind |-> "own", table |-> ConcatTables(sheets)],
               name |-> Some(T_summary_combined)]
         ELSE [df |-> [kind |-> "none"], name |-> None]
    ELSE IF KeywordMatches(sheet_type, sheets) # {}
         THEN LET i == Min(KeywordMatches(sheet_type, sheets))
              IN  [df |-> [kind |-> "ref", idx |-> i], name |-> Some(sheets[i].name)]
         ELSE IF 0 < Len(sheets)
              THEN [df |-> [kind |-> "ref", idx |-> 1],
                    name |-> Some(FallbackName(sheet_type))]
              ELSE [df |-> [kind |-> "none"], name |-> None]

\* the table and sheet name the loader selects: [df, name], df.kind = "none" if none
LoadSheet(sheet_type, sheets) ==
    IF sheet_type = "summary"
    THEN IF sheets # << >>
         THEN [df |-> [kind |-> "own", table |-> ConcatTables(sheets)],
               name |-> Some(T_summary_combined)]
         ELSE [df |-> [kind |-> "none"], name |-> None]
    ELSE IF KeywordMatches(sheet_type, sheets) # {}
         THEN LET i == Min(KeywordMatches(sheet_type, sheets))
              IN  [df |-> [kind |-> "ref", idx |-> i], name |-> Some(sheets[i].name)]
         ELSE IF FallbackIdx(sheet_type) < Len(sheets)
              THEN [df |-> [kind |-> "ref", idx |-> FallbackIdx(sheet_type) + 1],
                    name |-> Some(FallbackName(sheet_type))]
              ELSE [df |-> [kind |-> "none"], name |-> None]

SheetLoaderNode ==
    /\ pc \in SheetNodes
    /\ LET r == LoadSheet(SheetTypeOf(pc), selected_sheets)
       IN  IF r.df.kind # "none"
           THEN /\ df' = r.df
                /\ sheet' = r.name
                /\ error_log' = error_log
           ELSE /\ error_log' = Append(error_log, "Failed to load sheet")
                /\ UNCHANGED << df, sheet >>
    /\ UNCHANGED << writer_request, first_review_result, safe_code, exec_outcome >>
    /\ pc' = "Code Writer Node"
    /\ last' = pc
    /\ UNCHANGED << query, graph_type, selected_sheets, analysis_classification,
                    analysis_type, code_generation_result, code_review_result,
                    review_attempts, max_review_attempts, review_calls,
                    execution_result, analysis_result, response_df, response,
                    chains_present, run_output, component_vars, service_vars, echart_code, echart_sample_code,
                    designed_echart_code >>


(***************************************************************************)
(* Generated code: text, lines, and the artifacts the synthesis service    *)
(* may return.                                                             *)
(***************************************************************************)
W_analysis_results ==
    << "a", "n", "a", "l", "y", "s", "i", "s", "_", "r", "e", "s", "u", "l",
       "t", "s" >>

W_analysis_df ==
    << "a", "n", "a", "l", "y", "s", "i", "s", "_", "d", "f" >>

W_import ==
    << "i", "m", "p", "o", "r", "t", " " >>

W_from ==
    << "f", "r", "o", "m", " " >>

\* analysis_results = {'n': len(df)}   -- the result mapping
L_results ==
    << "a", "n", "a", "l", "y", "s", "i", "s", "_", "r", "e", "s", "u", "l",
       "t", "s", " ", "=", " ", "{", "'", "n", "'", ":", " ", "l", "e", "n",
       "(", "d", "f", ")", "}" >>

\* analysis_results = len(df)   -- a scalar result
L_scalar ==
    << "a", "n", "a", "l", "y", "s", "i", "s", "_", "r", "e", "s", "u", "l",
       "t", "s", " ", "=", " ", "l", "e", "n", "(", "d", "f", ")" >>

\* analysis_df = pd.DataFrame([analysis_results])   -- the tabular output built from the result mapping
L_df ==
    << "a", "n", "a", "l", "y", "s", "i", "s", "_", "d", "f", " ", "=", " ",
       "p", "d", ".", "D", "a", "t", "a", "F", "r", "a", "m", "e", "(", "[",
       "a", "n", "a", "l", "y", "s", "i", "s", "_", "r", "e", "s", "u", "l",
       "t", "s", "]", ")" >>

\* analysis_df = df.head(1)   -- a tabular output taken from the dataset
L_head ==
    << "a", "n", "a", "l", "y", "s", "i", "s", "_", "d", "f", " ", "=", " ",
       "d", "f", ".", "h", "e", "a", "d", "(", "1", ")" >>

\* n = len(df)   -- a statement that defines neither output
L_n ==
    << "n", " ", "=", " ", "l", "e", "n", "(", "d", "f", ")" >>

\* def f(:   -- a line that does not compile
L_bad ==
    << "d", "e", "f", " ", "f", "(", ":" >>

\* raise ValueError('boom')   -- raises an Exception
L_raise ==
    << "r", "a", "i", "s", "e", " ", "V", "a", "l", "u", "e", "E", "r", "r",
       "o", "r", "(", "'", "b", "o", "o", "m", "'", ")" >>

\* raise SystemExit(1)   -- an exit request (a BaseException that is not an Exception)
L_exit ==
    << "r", "a", "i", "s", "e", " ", "S", "y", "s", "t", "e", "m", "E", "x",
       "i", "t", "(", "1", ")" >>

\* df.drop(df.index, inplace=True)   -- removes every row of df in place
L_drop ==
    << "d", "f", ".", "d", "r", "o", "p", "(", "d", "f", ".", "i", "n", "d",
       "e", "x", ",", " ", "i", "n", "p", "l", "a", "c", "e", "=", "T", "r",
       "u", "e", ")" >>

\* import sklearn   -- import of an optional library
L_import ==
    << "i", "m", "p", "o", "r", "t", " ", "s", "k", "l", "e", "a", "r", "n" >>

\*     from seaborn import heatmap   -- an indented import of an optional library
L_from_indented ==
    << " ", " ", " ", " ", "f", "r", "o", "m", " ", "s", "e", "a", "b", "o",
       "r", "n", " ", "i", "m", "p", "o", "r", "t", " ", "h", "e", "a", "t",
       "m", "a", "p" >>

\* import os   -- import of a library that is not on the list
L_import_os ==
    << "i", "m", "p", "o", "r", "t", " ", "o", "s" >>

\* lib = 'sklearn'   -- names an optional library without importing it
L_mention ==
    << "l", "i", "b", " ", "=", " ", "'", "s", "k", "l", "e", "a", "r", "n",
       "'" >>

\* an empty line
L_blank == << >>

\* variant: a fallback text that only inspects the dataset
FallbackCodeText_NoOutputs == << "\n" >> \o L_n \o << "\n" >>

\* the code text of the fallback artifact of CodeWriterNode
FallbackCodeText ==
    << "\n", "t", "r", "y", ":", "\n", " ", " ", " ", " ", "a", "n", "a",
       "l", "y", "s", "i", "s", "_", "r", "e", "s", "u", "l", "t", "s", " ",
       "=", " ", "{", "\n", " ", " ", " ", " ", " ", " ", " ", " ", "'", "t",
       "o", "t", "a", "l", "_", "r", "e", "c", "o", "r", "d", "s", "'", ":",
       " ", "l", "e", "n", "(", "d", "f", ")", ",", "\n", " ", " ", " ", " ",
       " ", " ", " ", " ", "'", "s", "h", "a", "p", "e", "'", ":", " ", "d",
       "f", ".", "s", "h", "a", "p", "e", ",", "\n", " ", " ", " ", " ", " ",
       " ", " ", " ", "'", "c", "o", "l", "u", "m", "n", "s", "'", ":", " ",
       "d", "f", ".", "c", "o", "l", "u", "m", "n", "s", ".", "t", "o", "l",
       "i", "s", "t", "(", ")", ",", "\n", " ", " ", " ", " ", " ", " ", " ",
       " ", "'", "a", "n", "a", "l", "y", "s", "i", "s", "_", "t", "y", "p",
       "e", "'", ":", " ", "'", "b", "a", "s", "i", "c", "_", "s", "u", "m",
       "m", "a", "r", "y", "'", "\n", " ", " ", " ", " ", "}", "\n", " ",
       " ", " ", " ", "a", "n", "a", "l", "y", "s", "i", "s", "_", "d", "f",
       " ", "=", " ", "p", "d", ".", "D", "a", "t", "a", "F", "r", "a", "m",
       "e", "(", "[", "a", "n", "a", "l", "y", "s", "i", "s", "_", "r", "e",
       "s", "u", "l", "t", "s", "]", ")", "\n", " ", " ", " ", " ", "p", "r",
       "i", "n", "t", "(", "f", "\"", "A", "n", "a", "l", "y", "s", "i", "s",
       " ", "r", "e", "s", "u", "l", "t", "s", ":", " ", "{", "a", "n", "a",
       "l", "y", "s", "i", "s", "_", "r", "e", "s", "u", "l", "t", "s", "}",
       "\"", ")", "\n", "e", "x", "c", "e", "p", "t", " ", "E", "x", "c",
       "e", "p", "t", "i", "o", "n", " ", "a", "s", " ", "e", ":", "\n", " ",
       " ", " ", " ", "a", "n", "a", "l", "y", "s", "i", "s", "_", "r", "e",
       "s", "u", "l", "t", "s", " ", "=", " ", "{", "'", "e", "r", "r", "o",
       "r", "'", ":", " ", "s", "t", "r", "(", "e", ")", "}", "\n", " ", " ",
       " ", " ", "a", "n", "a", "l", "y", "s", "i", "s", "_", "d", "f", " ",
       "=", " ", "p", "d", ".", "D", "a", "t", "a", "F", "r", "a", "m", "e",
       "(", "[", "a", "n", "a", "l", "y", "s", "i", "s", "_", "r", "e", "s",
       "u", "l", "t", "s", "]", ")", "\n" >>

NL == << "\n" >>

\* positions of the line breaks of s
Breaks(s) == { i \in 1..Len(s) : s[i] = "\n" }

\* the line of s that starts at position b, given the line breaks nl
LineAt(s, b, nl) ==
    IF \E i \in nl : i >= b
    THEN SubSeq(s, b, Min({ i \in nl : i >= b }) - 1)
    ELSE SubSeq(s, b, Len(s))

\* str.splitlines(): no line after a final line break
SplitLinesAt(s, nl) ==
    LET starts == { b \in { 1 } \cup { i + 1 : i \in nl } : b <= Len(s) }
    IN  [k \in 1..Cardinality(starts) |->
            LineAt(s, CHOOSE b \in starts : Cardinality({ c \in starts : c < b }) = k - 1, nl)]

SplitLines(s) == SplitLinesAt(s, Breaks(s))

\* "\n".join(lines)
RECURSIVE JoinLines(_)
JoinLines(ls) ==
    IF ls = << >> THEN << >>
    ELSE IF Len(ls) = 1 THEN ls[1]
    ELSE ls[1] \o NL \o JoinLines(Tail(ls))

CodeArtifact(code, description) == [code |-> code, description |-> description]

\* the code texts the synthesis service returns in the model
GeneratedCodes ==
    { JoinLines(<< L_results, L_df >>),
      JoinLines(<< L_scalar >>),
      JoinLines(<< L_head >>),
      JoinLines(<< L_n >>),
      JoinLines(<< L_results, L_df, L_bad >>),
      JoinLines(<< L_n, L_bad >>),
      JoinLines(<< L_results, L_df, L_raise >>),
      JoinLines(<< L_results, L_df, L_exit >>),
      JoinLines(<< L_drop, L_results, L_df >>),
      JoinLines(<< L_import, L_results, L_head >>) }

FallbackArtifact == CodeArtifact(FallbackCodeText, "Basic fallback analysis")

\* the table state["df"] refers to
DfTable ==
    IF df.kind = "ref" THEN selected_sheets[df.idx].table ELSE df.table

(***************************************************************************)
(* CodeWriterNode, registered as "Code Writer Node" and "Code Rewrite Node"*)
(***************************************************************************)
WriterNoDataframe ==
    /\ df.kind = "none"
    /\ error_log' = Append(error_log, "No dataframe available")
    /\ UNCHANGED << code_generation_result, writer_request >>

\* the inputs of code_writer_chain.invoke
WriterInputs ==
    [user_query |-> query,
     analysis_classification |-> analysis_classification,
     sheet_info |-> [name |-> sheet,
                     shape |-> << Len(DfTable.rows), Len(DfTable.cols) >>,
                     columns |-> DfTable.cols],
     data_sample |-> SubSeq(DfTable.rows, 1, Min({ 3, Len(DfTable.rows) }))]

WriterOk(code) ==
    /\ df.kind # "none"
    /\ writer_request' = Some(WriterInputs)
    /\ code_generation_result' = Some(CodeArtifact(code, "generated"))
    /\ error_log' = error_log

WriterFallback ==
    /\ df.kind # "none"
    /\ writer_request' = Some(WriterInputs)
    /\ error_log' = Append(error_log, "Code generation error")
    /\ code_generation_result' = Some(FallbackArtifact)

CodeWriterNode ==
    /\ pc \in { "Code Writer Node", "Code Rewrite Node" }
    /\ \/ WriterNoDataframe
       \/ \E code \in GeneratedCodes : WriterOk(code)
       \/ WriterFallback
    /\ pc' = "Code Review Node"
    /\ last' = pc
    /\ UNCHANGED << first_review_result, safe_code, exec_outcome >>
    /\ UNCHANGED << sheet, query, graph_type, selected_sheets,
                    analysis_classification, analysis_type, df,
                    code_review_result, review_attempts, max_review_attempts,
                    review_calls, execution_result, analysis_result, response_df,
                    response, chains_present, run_output, component_vars, service_vars, echart_code, echart_sample_code,
                    designed_echart_code >>

(***************************************************************************)
(* CodeReviewNode and review_router.                                       *)
(***************************************************************************)
Verdict(approved, feedback, issues, suggestions, severity) ==
    [approved |-> approved, feedback |-> feedback, issues |-> issues,
     suggestions |-> suggestions, severity |-> severity]

\* the verdicts the review service returns in the model
ServiceVerdicts ==
    { Verdict(TRUE, << "Acceptable" >>, << "Minor style issue" >>, << >>, "low"),
      Verdict(FALSE, << "Needs work" >>, << "Wrong column used" >>,
              << "Use the Score column" >>, "high") }

AutoApproved ==
    Verdict(TRUE, << "Auto-approved after maximum attempts" >>, << >>, << >>, "low")

\* variant: the approval carries no suggestion
SyntaxApproved_Silent ==
    Verdict(TRUE, << "Approved via fallback syntax check" >>, << >>, << >>, "low")

SyntaxApproved ==
    Verdict(TRUE, << "Approved via fallback syntax check" >>, << >>,
            << "Consider manual code review" >>, "low")

SyntaxRejected ==
    Verdict(FALSE, << "Syntax error detected" >>, << "Syntax error" >>,
            << "Fix syntax error and retry" >>, "high")

\* variant: the syntax check accepts every text
Compiles_Always(code) == TRUE

\* compile(code, '<string>', 'exec') succeeds
Compiles(code) == SelectSeq(SplitLines(code), LAMBDA line : line = L_bad) = << >>

\* the issues of the contract check, in the order the code appends them
EnforceIssues(code) ==
    (IF Contains(W_analysis_results, code) THEN << >>
     ELSE << "Missing 'analysis_results' dictionary in generated code" >>)
    \o
    (IF Contains(W_analysis_df, code) THEN << >>
     ELSE << "Missing 'analysis_df' pandas DataFrame in generated code" >>)

\* variant: the contract check is skipped
ContractRejects_Skipped(code, attempt, max_attempts) == FALSE

\* variant: the contract check stops one attempt early
ContractRejects_OffByOne(code, attempt, max_attempts) ==
    EnforceIssues(code) # << >> /\ attempt < max_attempts

\* variant: the contract check ignores the attempt number
ContractRejects_Always(code, attempt, max_attempts) ==
    EnforceIssues(code) # << >>

\* whether the contract check replaces the verdict by a rejection
ContractRejects(code, attempt, max_attempts) ==
    EnforceIssues(code) # << >> /\ attempt <= max_attempts

\* the verdict after contract enforcement
Enforce(v, code, attempt, max_attempts) ==
    IF ContractRejects(code, attempt, max_attempts)
    THEN Verdict(FALSE, v.feedback \o << "; contract not satisfied" >>,
                 v.issues \o EnforceIssues(code),
                 << "Ensure both 'analysis_results' and 'analysis_df' are defined as specified" >>,
                 "medium")
    ELSE v

\* variant: the router only looks for a stored verdict
review_router_AnyVerdict(verdict) ==
    IF IsSome(verdict) THEN "LLM Node" ELSE "Code Rewrite Node"

review_router(verdict) ==
    IF IsSome(verdict) /\ Get(verdict).approved THEN "LLM Node" ELSE "Code Rewrite Node"

\* the verdicts of steps 1-2 with the number of service invocations they cost
FirstVerdicts(code, attempt, max_attempts) ==
    IF attempt > max_attempts
    THEN { [v |-> AutoApproved, calls |-> 0] }
    ELSE { [v |-> sv, calls |-> 1] : sv \in ServiceVerdicts }
         \cup { [v |-> IF Compiles(code) THEN SyntaxApproved ELSE SyntaxRejected,
                 calls |-> 1] }

\* variant: the counter is read but not advanced
NextAttempt_Stuck(n) == n

\* state["review_attempts"] = state.get("review_attempts", 0) + 1
NextAttempt(n) == n + 1

CodeReviewNode ==
    /\ pc = "Code Review Node"
    /\ review_attempts < MaxReviewRuns
    /\ review_attempts' = NextAttempt(review_attempts)
    /\ IF ~IsSome(code_generation_result)
       THEN UNCHANGED << code_review_result, first_review_result, review_calls,
                         response >>
       ELSE \E f \in FirstVerdicts(Get(code_generation_result).code,
                                   NextAttempt(review_attempts), max_review_attempts) :
            \E review_result \in { Enforce(f.v, Get(code_generation_result).code,
                                           NextAttempt(review_attempts), max_review_attempts) } :
              /\ review_calls' = review_calls + f.calls
              /\ first_review_result' = Some(f.v)
              /\ code_review_result' = Some(review_result)
              /\ response' = [response EXCEPT
                                 !.approved = Some(review_result.approved),
                                 !.attempt = NextAttempt(review_attempts)]
    /\ pc' = review_router(code_review_result')
    /\ last' = "Code Review Node"
    /\ UNCHANGED << writer_request, safe_code, exec_outcome >>
    /\ UNCHANGED << sheet, query, graph_type, selected_sheets,
                    analysis_classification, analysis_type, df,
                    code_generation_result, max_review_attempts, error_log,
                    execution_result, analysis_result, response_df,
                    chains_present, run_output, component_vars, service_vars, echart_code, echart_sample_code,
                    designed_echart_code >>


(***************************************************************************)
(* Values of the execution namespace and their coercion to a table.        *)
(***************************************************************************)
G_fuzzywuzzy == << "f", "u", "z", "z", "y", "w", "u", "z", "z", "y" >>

G_rapidfuzz == << "r", "a", "p", "i", "d", "f", "u", "z", "z" >>

G_sklearn == << "s", "k", "l", "e", "a", "r", "n" >>

G_matplotlib == << "m", "a", "t", "p", "l", "o", "t", "l", "i", "b" >>

G_seaborn == << "s", "e", "a", "b", "o", "r", "n" >>

G_statsmodels == << "s", "t", "a", "t", "s", "m", "o", "d", "e", "l", "s" >>

G_xgboost == << "x", "g", "b", "o", "o", "s", "t" >>

G_lightgbm == << "l", "i", "g", "h", "t", "g", "b", "m" >>

G_bar == << "b", "a", "r" >>

G_bar_chart == << "b", "a", "r", "_", "c", "h", "a", "r", "t" >>

G_column == << "c", "o", "l", "u", "m", "n" >>

G_line == << "l", "i", "n", "e" >>

G_line_chart == << "l", "i", "n", "e", "_", "c", "h", "a", "r", "t" >>

G_pie == << "p", "i", "e" >>

G_donut == << "d", "o", "n", "u", "t" >>

G_doughnut == << "d", "o", "u", "g", "h", "n", "u", "t" >>

G_scatter == << "s", "c", "a", "t", "t", "e", "r" >>

G_bubble == << "b", "u", "b", "b", "l", "e" >>

ScalarV(v) == [kind |-> "scalar", v |-> v]

\* a str value; v identifies the text
StrV(v) == [kind |-> "str", v |-> v]

ListV(items) == [kind |-> "list", items |-> items]

DictV(keys, vals) == [kind |-> "dict", keys |-> keys, vals |-> vals]

DfV(table) == [kind |-> "df", table |-> table]

\* cell of a table for a value: the number itself, -1 for an object (a list,
\* a mapping), -2 for NaN, -3 for a text, -4 for the diagnostic text
ObjectCell == -1

NaNCell == -2

TextCell == -3

FailedCell == -4

Cell(v) ==
    CASE v.kind = "scalar" -> v.v
      [] v.kind = "str" -> TextCell
      [] OTHER -> ObjectCell

\* hasattr(v, "__len__") and not isinstance(v, (str, bytes))
Sized(v) == v.kind \in { "list", "dict", "df" }

\* len(v) of a sized value
LenV(v) ==
    CASE v.kind = "list" -> Len(v.items)
      [] v.kind = "dict" -> Len(v.keys)
      [] v.kind = "df" -> Len(v.table.rows)

\* keys of a list of mappings in order of first appearance
RECURSIVE UnionKeys(_, _)
UnionKeys(items, acc) ==
    IF items = << >> THEN acc
    ELSE UnionKeys(Tail(items),
                   acc \o SelectSeq(Head(items).keys,
                                    LAMBDA k : \A j \in 1..Len(acc) : acc[j] # k))

\* value of key k in mapping d as a cell, NaN when d has no key k
Lookup(d, k) ==
    IF \E j \in 1..Len(d.keys) : d.keys[j] = k
    THEN Cell(d.vals[CHOOSE j \in 1..Len(d.keys) : d.keys[j] = k])
    ELSE NaNCell

\* pd.DataFrame(list of mappings): one row per mapping
RecordsToTable(items) ==
    LET cols == UnionKeys(items, << >>)
    IN  Table(cols, [i \in 1..Len(items) |->
                        [c \in 1..Len(cols) |-> Lookup(items[i], cols[c])]])

\* pd.DataFrame(list whose first item is a mapping): raises (None) when some
\* item has no keys()
DataFrameFromRecords(items) ==
    IF \A i \in 1..Len(items) : items[i].kind = "dict"
    THEN Some(RecordsToTable(items))
    ELSE None

\* pd.DataFrame(mapping whose list values have one common length n):
\* one row per index, scalars repeated on every row
ColumnsToTable(d, n) ==
    Table(d.keys, [i \in 1..n |->
                      [c \in 1..Len(d.keys) |->
                          IF d.vals[c].kind = "list" THEN Cell(d.vals[c].items[i])
                          ELSE Cell(d.vals[c])]])

\* pd.DataFrame(mapping whose values include mappings and no list): the row
\* labels are the keys of the inner mappings, one row per label
NestedToTable(d) ==
    LET inner == SelectSeq(d.vals, LAMBDA v : v.kind = "dict")
        index == UnionKeys(inner, << >>)
    IN  Table(d.keys, [i \in 1..Len(index) |->
                          [c \in 1..Len(d.keys) |->
                              IF d.vals[c].kind = "dict"
                              THEN Lookup(d.vals[c], index[i])
                              ELSE Cell(d.vals[c])]])

\* pd.DataFrame(mapping) as called when the sized values have one common
\* length n: raises (None) when mappings and lists are mixed
DataFrameFromMapping(d, n) ==
    LET dicts == { c \in 1..Len(d.vals) : d.vals[c].kind = "dict" }
        lists == { c \in 1..Len(d.vals) : d.vals[c].kind = "list" }
    IN  IF dicts # {} /\ lists # {} THEN None
        ELSE IF dicts # {} THEN Some(NestedToTable(d))
        ELSE Some(ColumnsToTable(d, n))

\* variant: the list is wrapped as one cell
ValueColumn_Wrapped(items) == Table(<< "value" >>, << << ObjectCell >> >>)

\* pd.DataFrame({"value": value}) for a list
ValueColumn(items) ==
    Table(<< "value" >>, [i \in 1..Len(items) |-> << Cell(items[i]) >>])

\* pd.DataFrame([{"error": "failed_to_coerce_to_dataframe"}])
CoerceFailedTable == Table(<< "error" >>, << << FailedCell >> >>)

\* the table of a constructor call, the diagnostic table when it raised
OrFailed(r) == IF IsSome(r) THEN Get(r) ELSE CoerceFailedTable

coerce_to_dataframe(value) ==
    CASE value.kind = "df" -> value.table
      [] value.kind = "list" ->
            IF value.items = << >> THEN EmptyTable
            ELSE IF value.items[1].kind = "dict"
                 THEN OrFailed(DataFrameFromRecords(value.items))
                 ELSE ValueColumn(value.items)
      [] value.kind = "dict" ->
            LET list_lengths == { LenV(value.vals[j]) :
                                    j \in { k \in 1..Len(value.vals) : Sized(value.vals[k]) } }
            IN  IF Cardinality(list_lengths) = 1
                THEN OrFailed(DataFrameFromMapping(value, CHOOSE n \in list_lengths : TRUE))
                ELSE RecordsToTable(<< value >>)
      [] OTHER -> Table(<< "value" >>, << << Cell(value) >> >>)

\* DataFrame.empty: no rows or no columns
IsEmptyTable(t) == Len(t.rows) = 0 \/ Len(t.cols) = 0

(***************************************************************************)
(* ExecNode: sanitising, running the code, reading back the outputs.       *)
(***************************************************************************)
StartsWith(prefix, s) ==
    Len(s) >= Len(prefix) /\ SubSeq(s, 1, Len(prefix)) = prefix

unsafe_imports ==
    << G_fuzzywuzzy, G_rapidfuzz, G_sklearn, G_matplotlib, G_seaborn,
       G_statsmodels, G_xgboost, G_lightgbm >>

\* variant: the line is tested as written, not stripped
IsUnsafeImport_NoTrim(line) ==
    /\ StartsWith(W_import, line) \/ StartsWith(W_from, line)
    /\ \E p \in 1..Len(unsafe_imports) : Contains(unsafe_imports[p], line)

\* whether sanitize_code drops the line
IsUnsafeImport(line) ==
    /\ StartsWith(W_import, Strip(line)) \/ StartsWith(W_from, Strip(line))
    /\ \E p \in 1..Len(unsafe_imports) : Contains(unsafe_imports[p], Strip(line))

sanitize_code(code) ==
    JoinLines(SelectSeq(SplitLines(code), LAMBDA line : ~IsUnsafeImport(line)))

\* the namespace before the first statement: df bound to the dataset table
Namespace(table) ==
    [outcome |-> "ok", results |-> None, adf |-> None, df |-> table]

\* the fallback artifact's try block: both outputs from the dataset
RunFallback(env) ==
    LET r == DictV(<< "total_records", "shape", "columns", "analysis_type" >>,
                   << ScalarV(Len(env.df.rows)),
                      ListV(<< ScalarV(Len(env.df.rows)), ScalarV(Len(env.df.cols)) >>),
                      ListV([i \in 1..Len(env.df.cols) |-> ScalarV(i)]),
                      ScalarV(0) >>)
    IN  [env EXCEPT !.results = Some(r),
                    !.adf = Some(RecordsToTable(<< r >>))]

\* one statement of the generated code; installed: the optional library is present
Statement(env, line, installed) ==
    CASE line = L_results ->
            [env EXCEPT !.results = Some(DictV(<< "n" >>, << ScalarV(Len(env.df.rows)) >>))]
      [] line = L_scalar ->
            [env EXCEPT !.results = Some(ScalarV(Len(env.df.rows)))]
      [] line = L_df ->
            IF ~IsSome(env.results) THEN [env EXCEPT !.outcome = "exception"]
            ELSE IF Get(env.results).kind = "dict"
                 THEN [env EXCEPT !.adf = Some(RecordsToTable(<< Get(env.results) >>))]
                 ELSE [env EXCEPT !.adf = Some(Table(<< "0" >>, << << Cell(Get(env.results)) >> >>))]
      [] line = L_head ->
            [env EXCEPT !.adf = Some(Table(env.df.cols, SubSeq(env.df.rows, 1, 1)))]
      [] line = L_raise -> [env EXCEPT !.outcome = "exception"]
      [] line = L_exit -> [env EXCEPT !.outcome = "exit"]
      [] line = L_drop -> [env EXCEPT !.df = Table(env.df.cols, << >>)]
      [] line = L_import ->
            IF installed THEN env ELSE [env EXCEPT !.outcome = "exception"]
      [] OTHER -> env

RECURSIVE RunLines(_, _, _)
RunLines(env, lines, installed) ==
    IF lines = << >> \/ env.outcome # "ok" THEN env
    ELSE RunLines(Statement(env, Head(lines), installed), Tail(lines), installed)

\* exec(code, exec_globals): compile first, then run statement by statement.
\* outcome "exception" is a raised Exception, "exit" a raised SystemExit
Exec(code, table, installed) ==
    IF ~Compiles(code) THEN [Namespace(table) EXCEPT !.outcome = "exception"]
    ELSE IF SplitLines(code) = SplitLines(FallbackCodeText)
         THEN RunFallback(Namespace(table))
         ELSE RunLines(Namespace(table), SplitLines(code), installed)


\* the object bound to df in exec_globals is state["df"] itself: what the
\* generated code does to it in place shows in the object df refers to
WriteBackDf(table) ==
    IF df.kind = "ref"
    THEN /\ selected_sheets' = [selected_sheets EXCEPT ![df.idx].table = table]
         /\ df' = df
    ELSE /\ df' = [df EXCEPT !.table = table]
         /\ selected_sheets' = selected_sheets

\* variant: the hint is compared as it was given
echarts_router_AsGiven(gt) ==
    LET g == IF IsSome(gt) THEN Get(gt) ELSE << >>
    IN  IF g \in { G_bar, G_bar_chart, G_column } THEN "ECharts Bar"
        ELSE IF g \in { G_line, G_line_chart } THEN "ECharts Line"
        ELSE IF g \in { G_pie, G_donut, G_doughnut } THEN "ECharts Pie"
        ELSE IF g \in { G_scatter, G_bubble } THEN "ECharts Scatter"
        ELSE "ECharts Bar"

echarts_router(gt) ==
    LET g == IF IsSome(gt) THEN Lower(Strip(Get(gt))) ELSE << >>
    IN  IF g \in { G_bar, G_bar_chart, G_column } THEN "ECharts Bar"
        ELSE IF g \in { G_line, G_line_chart } THEN "ECharts Line"
        ELSE IF g \in { G_pie, G_donut, G_doughnut } THEN "ECharts Pie"
        ELSE IF g \in { G_scatter, G_bubble } THEN "ECharts Scatter"
        ELSE "ECharts Bar"

\* the except branch of ExecNode
ExecFailure ==
    /\ error_log' = Append(error_log, "Execution error")
    /\ response_df' = Some(EmptyTable)
    /\ response' = [response EXCEPT !.status = "error",
                                     !.error = Some("Execution error")]
    /\ UNCHANGED << execution_result, analysis_result >>

\* the end of the try branch of ExecNode
ExecSuccess(value, analysis_df, summary) ==
    /\ execution_result' = Some(value)
    /\ analysis_result' = Some(summary)
    /\ response_df' = Some(analysis_df)
    /\ response' = [response EXCEPT !.status = "completed"]
    /\ error_log' = error_log

\* ExecNode when the dataframe or the code artifact is missing
ExecMissing ==
    /\ df.kind = "none" \/ ~IsSome(code_generation_result)
    /\ UNCHANGED safe_code
    /\ exec_outcome' = "not run"
    /\ ExecFailure
    /\ pc' = echarts_router(graph_type)
    /\ UNCHANGED << df, selected_sheets >>

\* ExecNode when the generated code runs; the run's effect on df is kept
ExecRun(installed, summary_ok) ==
    /\ df.kind # "none" /\ IsSome(code_generation_result)
    /\ safe_code' = Some(sanitize_code(Get(code_generation_result).code))
    /\ \E r \in { Exec(Get(safe_code'), DfTable, installed) } :
       LET value == IF IsSome(r.results) THEN Get(r.results) ELSE DictV(<< >>, << >>)
           analysis_df == IF IsSome(r.adf) THEN Get(r.adf) ELSE coerce_to_dataframe(value)
       IN  /\ WriteBackDf(r.df)
           /\ exec_outcome' = r.outcome
           /\ IF r.outcome = "exit"
              THEN /\ pc' = "Raised"
                   /\ UNCHANGED << error_log, response_df, response,
                                   execution_result, analysis_result >>
              ELSE /\ pc' = echarts_router(graph_type)
                   /\ IF r.outcome = "exception" THEN ExecFailure
                      ELSE IF ~chains_present
                           THEN ExecSuccess(value, analysis_df, "fallback summary")
                           ELSE IF summary_ok
                                THEN ExecSuccess(value, analysis_df, "service summary")
                                ELSE ExecFailure

ExecNode ==
    /\ pc = "LLM Node"
    /\ \/ ExecMissing
       \/ \E installed \in BOOLEAN, summary_ok \in BOOLEAN : ExecRun(installed, summary_ok)
    /\ last' = "LLM Node"
    /\ UNCHANGED << writer_request, first_review_result >>
    /\ UNCHANGED << sheet, query, graph_type, analysis_classification,
                    analysis_type, code_generation_result, code_review_result,
                    review_attempts, max_review_attempts, review_calls,
                    chains_present, run_output, component_vars, service_vars, echart_code, echart_sample_code,
                    designed_echart_code >>

(***************************************************************************)
(* Chart nodes.                                                            *)
(***************************************************************************)
EchartsNodes == { "ECharts Bar", "ECharts Line", "ECharts Pie", "ECharts Scatter" }

\* the texts the chart service returns in the model
ChartTexts == { "option = {series: [...]}", " " }

\* not s or not s.strip()
IsBlankText(o) == ~IsSome(o) \/ Get(o) \in { "", " " }

\* variant: the failure is not logged
EchartsFailure_Silent ==
    /\ error_log' = error_log
    /\ echart_code' = None

\* the except branch of EchartsNode
EchartsFailure ==
    /\ error_log' = Append(error_log, "ECharts error")
    /\ echart_code' = None

EchartsNode ==
    /\ pc \in EchartsNodes
    /\ IF ~IsSome(response_df) \/ IsEmptyTable(Get(response_df)) \/ ~chains_present
       THEN EchartsFailure
       ELSE \/ \E code_str \in ChartTexts :
                 /\ echart_code' = Some(code_str)
                 /\ error_log' = error_log
            \/ EchartsFailure
    /\ pc' = "ECharts Design Enhancement"
    /\ last' = pc
    /\ UNCHANGED << writer_request, first_review_result, safe_code, exec_outcome >>
    /\ UNCHANGED << sheet, query, graph_type, selected_sheets,
                    analysis_classification, analysis_type, df,
                    code_generation_result, code_review_result, review_attempts,
                    max_review_attempts, review_calls, execution_result,
                    analysis_result, response_df, response, chains_present,
                    run_output, component_vars, service_vars, echart_sample_code, designed_echart_code >>

\* variant: the failure is logged twice
MergeFailure_LogsTwice ==
    /\ error_log' = error_log \o << "Design enhancement error", "Design enhancement error" >>
    /\ designed_echart_code' = None

\* the except branch of EchartsDesignMergeNode
MergeFailure ==
    /\ error_log' = Append(error_log, "Design enhancement error")
    /\ designed_echart_code' = None

\* history records each echarts_code_merge_chain.invoke
EchartsDesignMergeNode ==
    /\ pc = "ECharts Design Enhancement"
    /\ IF IsBlankText(echart_code) \/ IsBlankText(echart_sample_code) \/ ~chains_present
       THEN MergeFailure /\ history' = history
       ELSE /\ history' = Append(history, "echarts_code_merge_chain.invoke")
            /\ \/ /\ designed_echart_code' = Some("merged option")
                  /\ error_log' = error_log
               \/ MergeFailure
    /\ pc' = "END"
    /\ last' = pc
    /\ UNCHANGED << writer_request, first_review_result, safe_code, exec_outcome >>
    /\ UNCHANGED << sheet, query, graph_type, selected_sheets,
                    analysis_classification, analysis_type, df,
                    code_generation_result, code_review_result, review_attempts,
                    max_review_attempts, review_calls, execution_result,
                    analysis_result, response_df, response, chains_present,
                    run_output, echart_code, echart_sample_code >>
    /\ UNCHANGED << invocation, returned, now, rate_limiter, ip_blocklist,
                    plots_file, runs >>
    /\ UNCHANGED service_vars

(***************************************************************************)
(* The run.                                                                *)
(***************************************************************************)
Next ==
    \/ StartNode
    \/ AnalysisNode
    \/ SheetLoaderNode
    \/ CodeWriterNode
    \/ CodeReviewNode
    \/ ExecNode
    \/ EchartsNode
    \/ EchartsDesignMergeNode

Spec == Init /\ [][Next]_vars

(***************************************************************************)
(* Properties of the review loop.                                          *)
(***************************************************************************)
CurrentCode == Get(code_generation_result).code

HasBothOutputs(code) ==
    Contains(W_analysis_results, code) /\ Contains(W_analysis_df, code)

\* number of contract identifiers the code text lacks
MissingOutputs(code) ==
    (IF Contains(W_analysis_results, code) THEN 0 ELSE 1)
    + (IF Contains(W_analysis_df, code) THEN 0 ELSE 1)

\* C1: in every reachable state review_attempts <= max_review_attempts + 1,
\* also when no dataframe or code artifact is available.
C1_RetryBound == review_attempts <= max_review_attempts + 1

\* C2: every run leaves the Review/Rewrite loop and reaches Execute: a Code
\* Review on an attempt beyond the maximum hands the run to Execute, so the
\* cycle Code Review -> Code Rewrite -> Code Review cannot go on, also when
\* Code Writer produced no artifact.
C2_LoopExits ==
    (last = "Code Review Node" /\ review_attempts > max_review_attempts)
        => pc = "LLM Node"

\* C3: whenever Execute starts, the stored verdict is approved and the code
\* text contains both 'analysis_results' and 'analysis_df', or the verdict
\* was produced on an attempt beyond max_review_attempts.
C3_ExecuteOnlyApproved ==
    pc = "LLM Node" =>
        /\ IsSome(code_review_result)
        /\ Get(code_review_result).approved
        /\ IsSome(code_generation_result)
        /\ HasBothOutputs(CurrentCode) \/ review_attempts > max_review_attempts

C3_Witness ==
    /\ pc = "LLM Node"
    /\ review_attempts <= max_review_attempts
    /\ Get(code_review_result).approved
    /\ HasBothOutputs(CurrentCode)

\* C4: a Code Review of a code text that lacks 'analysis_results' or
\* 'analysis_df' on an attempt <= max_attempts stores a rejection whose issues
\* are the earlier verdict's issues followed by one issue per missing
\* identifier, and hands over to Code Rewrite; Code Rewrite hands back to Code
\* Review, which runs with attempt + 1.
C4_ContractForcesRewrite ==
    [][ /\ ( /\ pc = "Code Review Node"
             /\ IsSome(code_generation_result)
             /\ MissingOutputs(CurrentCode) > 0
             /\ review_attempts + 1 <= max_review_attempts )
           => /\ IsSome(code_review_result')
              /\ ~Get(code_review_result').approved
              /\ Len(Get(code_review_result').issues)
                    = Len(Get(first_review_result').issues) + MissingOutputs(CurrentCode)
              /\ SubSeq(Get(code_review_result').issues, 1,
                        Len(Get(first_review_result').issues))
                    = Get(first_review_result').issues
              /\ pc' = "Code Rewrite Node"
        /\ pc = "Code Rewrite Node"
           => pc' = "Code Review Node" /\ review_attempts' = review_attempts
        /\ pc = "Code Review Node" => review_attempts' = review_attempts + 1
      ]_vars

C4_Witness ==
    /\ last = "Code Review Node"
    /\ pc = "Code Rewrite Node"
    /\ IsSome(code_generation_result)
    /\ ~Contains(W_analysis_df, CurrentCode)
    /\ review_attempts <= max_review_attempts
    /\ Get(first_review_result).approved
    /\ Len(Get(first_review_result).issues) = 1
    /\ Len(Get(code_review_result).issues) = 2

\* C5: a Code Review on an attempt > max_attempts with a code artifact stores
\* the verdict approved / severity low / feedback 'Auto-approved after maximum
\* attempts' without invoking the review service, also when an identifier is
\* missing.
C5_AutoApproval ==
    [][ ( /\ pc = "Code Review Node"
          /\ IsSome(code_generation_result)
          /\ review_attempts + 1 > max_review_attempts )
        => /\ IsSome(code_review_result')
           /\ Get(code_review_result').approved
           /\ Get(code_review_result').severity = "low"
           /\ Get(code_review_result').feedback
                 = << "Auto-approved after maximum attempts" >>
           /\ review_calls' = review_calls
      ]_vars

C5_Witness ==
    /\ last = "Code Review Node"
    /\ IsSome(code_generation_result)
    /\ review_attempts > max_review_attempts
    /\ MissingOutputs(CurrentCode) = 2
    /\ Get(code_review_result).approved
    /\ pc = "LLM Node"

C7_NodeOrder ==
    /\ last = "" => pc = "start"
    /\ last = "start" => pc \in AnalysisNodes
    /\ last \in AnalysisNodes => pc \in SheetNodes
    /\ last \in SheetNodes => pc = "Code Writer Node"
    /\ last = "Code Writer Node" => pc = "Code Review Node"
    /\ last = "Code Review Node" =>
          IF IsSome(code_review_result) /\ Get(code_review_result).approved
          THEN pc = "LLM Node"
          ELSE pc = "Code Rewrite Node"
    /\ last = "Code Rewrite Node" => pc = "Code Review Node"

C7_Witness ==
    /\ last = "Code Review Node"
    /\ pc = "Code Rewrite Node"
    /\ IsSome(code_review_result)
    /\ ~Get(code_review_result).approved
    /\ review_attempts = 1

(***************************************************************************)
(* Properties of the classifier and of subset selection.                   *)
(***************************************************************************)
\* C17: the start node always hands the run to an analysis-type node with a
\* classification stored; when the classification service failed, the stored
\* classification has confidence between 0.3 and 0.5 (3 to 5 tenths) and
\* exactly one entry was appended to error_log; after the start node the
\* classification is never absent.
C17_ClassifierNeverAborts ==
    /\ [](last # "" => IsSome(analysis_classification))
    /\ [][ pc = "start"
           => /\ pc' \in AnalysisNodes
              /\ IsSome(analysis_classification')
              /\ response'.error # None
                 => /\ Get(analysis_classification').confidence \in 3..5
                    /\ Len(error_log') = Len(error_log) + 1
                    /\ SubSeq(error_log', 1, Len(error_log)) = error_log
         ]_vars

C17_Witness ==
    /\ last = "start"
    /\ response.error = Some("Classification error")
    /\ analysis_classification = Some(Classification("unknown", 5, None))
    /\ error_log = << "Classification error" >>
    /\ pc = "Summary Analysis"

\* a subset name as the selector compares it: trimmed, lower case, '_' as ' '
NormalizedName(o) ==
    IF IsSome(o) THEN ReplaceUnderscore(Lower(Strip(Get(o)))) ELSE << >>

\* the sheet nodes of the categories whose keywords the text has
CategoryNodes(text) ==
    (IF Contains(W_back, text) /\ Contains(W_office, text)
     THEN { "Back Office Sheet" } ELSE {})
    \cup (IF Contains(W_call, text) /\ Contains(W_center, text)
          THEN { "Call Center Sheet" } ELSE {})
    \cup (IF Contains(W_leader, text) THEN { "Leader Sheet" } ELSE {})
    \cup (IF Contains(W_retail, text) \/ Contains(W_sales, text)
          THEN { "Retails Sheet" } ELSE {})
    \cup (IF Contains(W_summary, text) THEN { "Summary Sheet" } ELSE {})

\* the nodes a text selects: those of its categories, the summary node if none
NodesFor(text) ==
    IF CategoryNodes(text) = {} THEN { "Summary Sheet" } ELSE CategoryNodes(text)

SuggestedName == NormalizedName(Get(analysis_classification).suggested_sheet)

\* C18 as claimed: an explicit subset name that matches a category decides
\* the sheet node; an explicit name that matches none falls back to the
\* Classifier's suggested name and, if that is absent, to the query text.
C18_SelectionFallsBack ==
    [][ (pc \in AnalysisNodes)
        => pc' \in NodesFor(
              IF CategoryNodes(NormalizedName(sheet)) # {} THEN NormalizedName(sheet)
              ELSE IF SuggestedName # << >> THEN SuggestedName
              ELSE Lower(query))
      ]_vars

\* C18 amended: an explicit subset name that is not blank always decides the
\* sheet node, the summary node when it matches no category; only when no
\* explicit name is set does the selector use the suggested name and, if that
\* is absent, the query text.
C18_ExplicitNameDecides ==
    [][ (pc \in AnalysisNodes)
        => pc' \in NodesFor(
              IF NormalizedName(sheet) # << >> THEN NormalizedName(sheet)
              ELSE IF SuggestedName # << >> THEN SuggestedName
              ELSE Lower(query))
      ]_vars

C18_Witness ==
    /\ last \in AnalysisNodes
    /\ sheet = Some(T_sheet_xyz)
    /\ Get(analysis_classification).suggested_sheet = Some(T_Leaders)
    /\ query = T_query_top
    /\ pc = "Summary Sheet"

\* no subset can be resolved for the category: no subset name has one of its
\* keywords and its positional index is out of range, or the category is
\* 'summary' and there is no subset
Unresolvable(sheet_type, sheets) ==
    IF sheet_type = "summary" THEN Len(sheets) = 0
    ELSE /\ \A i \in 1..Len(sheets) :
               \A k \in Keywords(sheet_type) : ~Contains(k, Lower(sheets[i].name))
         /\ FallbackIdx(sheet_type) >= Len(sheets)

\* C19: a sheet loader that can resolve no subset appends exactly one
\* error_log entry, leaves df and sheet unchanged and hands over to Code
\* Writer; the Code Writer that follows appends 'No dataframe available',
\* stores no artifact and hands over to Code Review.
C19_UnresolvedSubsetIsLogged ==
    [][ /\ ( (pc \in SheetNodes) /\ Unresolvable(SheetTypeOf(pc), selected_sheets) )
           => /\ error_log' = Append(error_log, "Failed to load sheet")
              /\ df' = df
              /\ sheet' = sheet
              /\ pc' = "Code Writer Node"
        /\ ( pc = "Code Writer Node" /\ error_log # << >>
                /\ error_log[Len(error_log)] = "Failed to load sheet" )
           => /\ error_log' = Append(error_log, "No dataframe available")
              /\ code_generation_result' = None
              /\ pc' = "Code Review Node"
      ]_vars

C19_Witness ==
    /\ last = "Code Writer Node"
    /\ selected_sheets = OneSheet
    /\ sheet = Some(T_sheet_retail)
    /\ df.kind = "none"
    /\ error_log = << "Failed to load sheet", "No dataframe available" >>
    /\ code_generation_result = None
    /\ pc = "Code Review Node"

(***************************************************************************)
(* Properties of the review fallback.                                      *)
(***************************************************************************)
\* the latest Code Review got no verdict from the review service and used
\* the syntax check
ReviewServiceFailed ==
    /\ last = "Code Review Node"
    /\ review_attempts <= max_review_attempts
    /\ first_review_result \in { Some(SyntaxApproved), Some(SyntaxRejected) }

\* the code text has the line that does not compile
SyntaxInvalid(code) == Contains(L_bad, code)

\* C13 as claimed: when the review service fails on an attempt <= max_attempts
\* and the code text is syntactically invalid, the stored verdict is rejected
\* with severity high.
C13_SyntaxRejectionHigh ==
    (ReviewServiceFailed /\ SyntaxInvalid(CurrentCode))
        => /\ IsSome(code_review_result)
           /\ ~Get(code_review_result).approved
           /\ Get(code_review_result).severity = "high"

\* C13 amended: in that case the stored verdict is rejected; its severity is
\* high when the code text contains both contract identifiers and medium when
\* one is missing.
C13_SyntaxRejection ==
    (ReviewServiceFailed /\ SyntaxInvalid(CurrentCode))
        => /\ IsSome(code_review_result)
           /\ ~Get(code_review_result).approved
           /\ Get(code_review_result).severity
                 = IF HasBothOutputs(CurrentCode) THEN "high" ELSE "medium"
           /\ pc = "Code Rewrite Node"

C13_Witness ==
    /\ ReviewServiceFailed
    /\ SyntaxInvalid(CurrentCode)
    /\ HasBothOutputs(CurrentCode)
    /\ code_review_result = Some(SyntaxRejected)
    /\ pc = "Code Rewrite Node"

\* C14: when the review service fails on an attempt <= max_attempts and the
\* code text is syntactically valid and contains both contract identifiers,
\* the stored verdict is approved with severity low and the suggestion to
\* review manually, and the run goes on to Execute.
C14_SyntaxApproval ==
    (ReviewServiceFailed /\ ~SyntaxInvalid(CurrentCode) /\ HasBothOutputs(CurrentCode))
        => /\ IsSome(code_review_result)
           /\ Get(code_review_result).approved
           /\ Get(code_review_result).severity = "low"
           /\ Get(code_review_result).suggestions = << "Consider manual code review" >>
           /\ pc = "LLM Node"

C14_Witness ==
    /\ ReviewServiceFailed
    /\ CurrentCode = FallbackCodeText
    /\ Get(code_review_result).approved
    /\ review_attempts = 1
    /\ pc = "LLM Node"

(***************************************************************************)
(* Properties of the code writer.                                          *)
(***************************************************************************)
\* C15: when the synthesis service call fails while a dataframe is selected,
\* Code Writer, also when run as Code Rewrite, stores an artifact whose code
\* text contains both 'analysis_results' and 'analysis_df'.
C15_FallbackKeepsContract ==
    [][ ( /\ pc \in { "Code Writer Node", "Code Rewrite Node" }
          /\ df.kind # "none"
          /\ error_log' = Append(error_log, "Code generation error") )
        => /\ IsSome(code_generation_result')
           /\ Contains(W_analysis_results, Get(code_generation_result').code)
           /\ Contains(W_analysis_df, Get(code_generation_result').code)
           /\ pc' = "Code Review Node"
      ]_vars

C15_Witness ==
    /\ last = "Code Rewrite Node"
    /\ df.kind # "none"
    /\ error_log # << >>
    /\ error_log[Len(error_log)] = "Code generation error"
    /\ code_generation_result = Some(FallbackArtifact)
    /\ HasBothOutputs(CurrentCode)

\* the inputs the repository's rewrite prompt takes beside the query and the
\* dataset: the code to rewrite and the verdict's issues and suggestions
RewriteInputs == { "previous_code", "review_issues", "review_suggestions" }

C8_FailedExecuteRetries ==
    (last = "LLM Node" /\ exec_outcome = "exception" /\ response.status = "error"
        /\ review_attempts < max_review_attempts)
        => pc = "Code Rewrite Node"

\* C9: whatever the generated code does when executed (any exception, an exit
\* request), ExecNode returns the state with an empty table in response_df,
\* one more error_log entry and response status 'error'; nothing propagates.
C9_ExecNeverPropagates ==
    (last = "LLM Node" /\ exec_outcome \in { "exception", "exit" })
        => /\ pc # "Raised"
           /\ response_df = Some(EmptyTable)
           /\ response.status = "error"
           /\ error_log # << >>
           /\ error_log[Len(error_log)] = "Execution error"

\* C10: the caller's tables have the same contents after the run as before it,
\* whatever the generated code does.
C10_CallerTablesUnchanged ==
    selected_sheets \in { r.selected_sheets : r \in Requests }

(***************************************************************************)
(* The functions of ExecNode applied on their own: the state holds the     *)
(* argument and the returned value, the other keys of the run are idle.    *)
(***************************************************************************)
idle_vars ==
    << last, sheet, graph_type, selected_sheets, analysis_classification,
       analysis_type, writer_request, code_review_result, first_review_result,
       review_attempts, max_review_attempts, review_calls, error_log, exec_outcome,
       analysis_result, chains_present, run_output, component_vars, service_vars, echart_code, echart_sample_code,
       designed_echart_code >>

IdleInit ==
    /\ last = ""
    /\ sheet = None
    /\ graph_type = None
    /\ selected_sheets = NoSheets
    /\ analysis_classification = None
    /\ analysis_type = ""
    /\ writer_request = None
    /\ code_review_result = None
    /\ first_review_result = None
    /\ review_attempts = 0
    /\ max_review_attempts = 3
    /\ review_calls = 0
    /\ error_log = << >>
    /\ exec_outcome = ""
    /\ analysis_result = None
    /\ chains_present = TRUE
    /\ run_output = None
    /\ ComponentsIdle
    /\ ServicesIdle
    /\ echart_code = None
    /\ echart_sample_code = None
    /\ designed_echart_code = None

\* the sequences over S of length at most n
SeqsUpTo(S, n) == UNION { [1..k -> S] : k \in 0..n }

\* values the generated code may leave in analysis_results
CoerceAtoms == { ScalarV(0), ScalarV(1), StrV(2) }

InnerLists == { ListV(items) : items \in SeqsUpTo({ ScalarV(0), ScalarV(1) }, MaxItems) }

InnerDicts ==
    { DictV(<< >>, << >>), DictV(<< "x" >>, << ScalarV(0) >>),
      DictV(<< "y" >>, << ScalarV(1) >>),
      DictV(<< "x", "y" >>, << ScalarV(0), ScalarV(1) >>) }

CoerceLists ==
    { ListV(items) :
        items \in SeqsUpTo(CoerceAtoms \cup InnerDicts \cup { ListV(<< ScalarV(0) >>) },
                           MaxItems) }

CoerceMappings ==
    { DictV(keys, vals) :
        keys \in { << >>, << "a" >>, << "a", "b" >> },
        vals \in SeqsUpTo(CoerceAtoms \cup InnerLists \cup InnerDicts, 2) }

CoerceInputs ==
    CoerceAtoms \cup CoerceLists \cup { DfV(TableA), DfV(EmptyTable) }
    \cup { d \in CoerceMappings : Len(d.keys) = Len(d.vals) }

CoerceInit ==
    /\ pc = "coerce_to_dataframe"
    /\ execution_result \in { Some(v) : v \in CoerceInputs }
    /\ response_df = None
    /\ query = << >>
    /\ df = [kind |-> "none"]
    /\ code_generation_result = None
    /\ safe_code = None
    /\ response = [stage |-> "", status |-> "", error |-> None,
                   approved |-> None, attempt |-> 0]
    /\ IdleInit

\* analysis_df = coerce_to_dataframe(execution_result)
CoerceStep ==
    /\ pc = "coerce_to_dataframe"
    /\ response_df' = Some(coerce_to_dataframe(Get(execution_result)))
    /\ pc' = "returned"
    /\ UNCHANGED << execution_result, query, df, code_generation_result,
                    safe_code, response >>
    /\ UNCHANGED idle_vars

CoerceNext == CoerceStep

CoerceSpec == CoerceInit /\ [][CoerceNext]_vars

\* code texts handed to sanitize_code: up to MaxCodeLines lines, with or
\* without a final line break
SanitizeLines ==
    { L_n, L_import, L_from_indented, L_import_os, L_mention, L_blank }

SanitizeInputs ==
    { JoinLines(ls) \o tail :
        ls \in SeqsUpTo(SanitizeLines, MaxCodeLines), tail \in { << >>, NL } }

SanitizeInit ==
    /\ pc = "sanitize_code"
    /\ code_generation_result \in { Some(CodeArtifact(code, "generated")) : code \in SanitizeInputs }
    /\ safe_code = None
    /\ execution_result = None
    /\ response_df = None
    /\ query = << >>
    /\ df = [kind |-> "none"]
    /\ response = [stage |-> "", status |-> "", error |-> None,
                   approved |-> None, attempt |-> 0]
    /\ IdleInit

\* safe_code = sanitize_code(code_result.code)
SanitizeStep ==
    /\ pc = "sanitize_code"
    /\ safe_code' = Some(sanitize_code(Get(code_generation_result).code))
    /\ pc' = "sanitized"
    /\ UNCHANGED << code_generation_result, execution_result, response_df, query,
                    df, response >>
    /\ UNCHANGED idle_vars

\* sanitize_code applied to its own result
SanitizeAgain ==
    /\ pc = "sanitized"
    /\ safe_code' = Some(sanitize_code(Get(safe_code)))
    /\ pc' = "sanitized twice"
    /\ UNCHANGED << code_generation_result, execution_result, response_df, query,
                    df, response >>
    /\ UNCHANGED idle_vars

SanitizeNext == SanitizeStep \/ SanitizeAgain

SanitizeSpec == SanitizeInit /\ [][SanitizeNext]_vars

(***************************************************************************)
(* graph.py: the convenience function run_analysis around                  *)
(* DataAnalysisWorkflow.  df holds the dataset argument, query the         *)
(* question, run_output the returned dict; last is the latest constructor  *)
(* or node that ran.                                                       *)
(***************************************************************************)
run_idle_vars ==
    << sheet, graph_type, selected_sheets, analysis_type, writer_request,
       code_generation_result, code_review_result, first_review_result,
       review_attempts, max_review_attempts, review_calls, error_log, safe_code,
       exec_outcome, execution_result, analysis_result, response_df, response,
       chains_present, echart_code, echart_sample_code, designed_echart_code,
       component_vars, service_vars >>

T_query_hi == << "h", "i" >>

T_query_blank == << " ", " ", " ", " ", " ", " " >>

T_query_abcd == << " ", "a", "b", "c", "d", " ", " " >>

T_query_count5 == << "c", "o", "u", "n", "t" >>

\* a table with column labels and no rows
TableNoRows == Table(<< "Name", "Score" >>, << >>)

\* a table with an index of two rows and no columns
TableNoCols == Table(<< >>, << << >>, << >> >>)

\* the datasets run_analysis is called with
RunDatasets ==
    { [kind |-> "none"] } \cup
    { [kind |-> "own", table |-> t] :
          t \in { EmptyTable, TableNoRows, TableNoCols, TableA, TableB } }

\* the questions run_analysis is called with
RunQueries ==
    { << >>, T_query_hi, T_query_blank, T_query_abcd, T_query_count5,
      T_query_count, T_query_top }

\* not user_query or len(user_query.strip()) < 5
QueryTooShort(q) == Len(q) = 0 \/ Len(Strip(q)) < 5

\* variant: only a missing dataset is rejected
NoDataProvided_NoneOnly(d) == d.kind = "none"

\* df is None or df.empty
NoDataProvided(d) == d.kind = "none" \/ IsEmptyTable(d.table)

\* the error dict of run_analysis
ErrorOutput(message, q) ==
    [success |-> FALSE, user_query |-> q, error |-> message,
     classification |-> None, analysis |-> None, review |-> None,
     execution |-> None, final_results |-> None, generated_code |-> None,
     retry_count |-> 0, workflow_completed |-> FALSE]

\* the dict DataAnalysisWorkflow.run returns when the graph finished
RunSuccessOutput(cls, code, execution, final) ==
    [success |-> TRUE, classification |-> cls, data_extraction |-> None,
     generated_code |-> code, execution |-> execution, final_results |-> final,
     visualization_html |-> None]

\* the dict DataAnalysisWorkflow.run returns when the graph raised
RunFailureOutput ==
    [success |-> FALSE, error |-> "Enhanced workflow error",
     classification |-> None, execution |-> None, final_results |-> None]

\* QueryClassificationNode.create_fallback_response
FallbackClassification ==
    [query_type |-> "general", requires_data_filtering |-> FALSE, confidence |-> 3]

\* classifications the service returns (confidence in tenths)
ServiceClassifications ==
    { [query_type |-> t, requires_data_filtering |-> f, confidence |-> 9] :
          t \in { "general", "visualization" }, f \in BOOLEAN }

RunAnalysisInit ==
    /\ pc = "run_analysis"
    /\ last = ""
    /\ df \in RunDatasets
    /\ query \in RunQueries
    /\ analysis_classification = None
    /\ run_output = None
    /\ ComponentsIdle
    /\ ServicesIdle
    /\ sheet = None
    /\ graph_type = None
    /\ selected_sheets = NoSheets
    /\ analysis_type = ""
    /\ writer_request = None
    /\ code_generation_result = None
    /\ code_review_result = None
    /\ first_review_result = None
    /\ review_attempts = 0
    /\ max_review_attempts = 3
    /\ review_calls = 0
    /\ error_log = << >>
    /\ safe_code = None
    /\ exec_outcome = ""
    /\ execution_result = None
    /\ analysis_result = None
    /\ response_df = None
    /\ response = [stage |-> "", status |-> "", error |-> None,
                   approved |-> None, attempt |-> 0]
    /\ chains_present = TRUE
    /\ echart_code = None
    /\ echart_sample_code = None
    /\ designed_echart_code = None

\* run_analysis up to the construction of the workflow: the two input checks
RunAnalysisValidate ==
    /\ pc = "run_analysis"
    /\ IF QueryTooShort(query)
       THEN /\ run_output' = Some(ErrorOutput("Query is too short or empty", query))
            /\ pc' = "returned"
       ELSE IF NoDataProvided(df)
       THEN /\ run_output' = Some(ErrorOutput("No data provided for analysis", query))
            /\ pc' = "returned"
       ELSE /\ run_output' = run_output
            /\ pc' = "DataAnalysisWorkflow"
    /\ UNCHANGED << last, df, query, analysis_classification >>
    /\ UNCHANGED run_idle_vars

\* workflow = DataAnalysisWorkflow(model_name=model_name): the constructor
\* builds the graph or raises, and run_analysis turns a raise into an error dict
WorkflowCreate ==
    /\ pc = "DataAnalysisWorkflow"
    /\ \E built \in BOOLEAN :
          IF built
          THEN /\ last' = "DataAnalysisWorkflow"
               /\ pc' = "classify_query"
               /\ run_output' = run_output
          ELSE /\ last' = last
               /\ pc' = "returned"
               /\ run_output' =
                     Some(ErrorOutput("Workflow initialization or execution failed", query))
    /\ UNCHANGED << df, query, analysis_classification >>
    /\ UNCHANGED run_idle_vars

\* the entry node of the graph: the service's classification or the fallback
ClassifyQuery ==
    /\ pc = "classify_query"
    /\ \E c \in ServiceClassifications \cup { FallbackClassification } :
          analysis_classification' = Some(c)
    /\ last' = "classify_query"
    /\ pc' = "graph"
    /\ UNCHANGED << df, query, run_output >>
    /\ UNCHANGED run_idle_vars

\* the nodes after classify_query up to END, then the dict that
\* DataAnalysisWorkflow.run builds and run_analysis hands back unchanged
WorkflowFinish ==
    /\ pc = "graph"
    /\ \E outcome \in { "raised", "final only", "code executed" } :
          run_output' =
             Some(CASE outcome = "raised" -> RunFailureOutput
                    [] outcome = "final only" ->
                          RunSuccessOutput(analysis_classification, None, None,
                                           Some("final_results"))
                    [] OTHER ->
                          RunSuccessOutput(analysis_classification, Some("current_code"),
                                           Some("execution_result"),
                                           Some("final_results")))
    /\ last' = "final_results"
    /\ pc' = "returned"
    /\ UNCHANGED << df, query, analysis_classification >>
    /\ UNCHANGED run_idle_vars

RunAnalysisNext ==
    \/ RunAnalysisValidate
    \/ WorkflowCreate
    \/ ClassifyQuery
    \/ WorkflowFinish

RunAnalysisSpec == RunAnalysisInit /\ [][RunAnalysisNext]_vars

(***************************************************************************)
(* The components outside the workflow state, each run on its own: the     *)
(* keys of the workflow state stay as they are before a run.               *)
(***************************************************************************)
workflow_vars ==
    << last, sheet, query, graph_type, selected_sheets, analysis_classification,
       analysis_type, df, writer_request, code_generation_result,
       code_review_result, first_review_result, review_attempts,
       max_review_attempts, review_calls, error_log, safe_code, exec_outcome,
       execution_result, analysis_result, response_df, response, chains_present,
       run_output, echart_code, echart_sample_code, designed_echart_code >>

state_vars == << workflow_vars, service_vars >>

WorkflowIdle ==
    /\ last = ""
    /\ sheet = None
    /\ query = << >>
    /\ graph_type = None
    /\ selected_sheets = NoSheets
    /\ analysis_classification = None
    /\ analysis_type = ""
    /\ df = [kind |-> "none"]
    /\ writer_request = None
    /\ code_generation_result = None
    /\ code_review_result = None
    /\ first_review_result = None
    /\ review_attempts = 0
    /\ max_review_attempts = 3
    /\ review_calls = 0
    /\ error_log = << >>
    /\ safe_code = None
    /\ exec_outcome = ""
    /\ execution_result = None
    /\ analysis_result = None
    /\ response_df = None
    /\ response = [stage |-> "", status |-> "", error |-> None,
                   approved |-> None, attempt |-> 0]
    /\ chains_present = TRUE
    /\ run_output = None
    /\ echart_code = None
    /\ echart_sample_code = None
    /\ designed_echart_code = None

StateIdle == WorkflowIdle /\ ServicesIdle

(***************************************************************************)
(* base.py: StructuredChainNode.invoke_chain_with_fallback.  history holds *)
(* what each chain.invoke did, invocation the locals of the loop.          *)
(***************************************************************************)
\* what one chain.invoke can do: hand back a result the output model accepts,
\* or raise an error of one of the kinds the handler tells apart
ChainErrors == { "overloaded", "parsing", "other" }

ChainOutcomes == { "result" } \cup ChainErrors

\* 2 ** n
RECURSIVE Pow2(_)
Pow2(n) == IF n = 0 THEN 1 ELSE 2 * Pow2(n - 1)

\* variant: the wait does not look at the attempts that are left
SleepAfter_EveryAttempt(error, attempt, max_retries) ==
    IF error = "overloaded"
    THEN << [seconds |-> Pow2(attempt), jitter |-> TRUE] >>
    ELSE IF error = "parsing"
         THEN << [seconds |-> 1, jitter |-> FALSE] >>
         ELSE << >>

\* time.sleep of the except branch: [seconds, jitter] or nothing; jitter
\* stands for the added random.uniform(0, 1)
SleepAfter(error, attempt, max_retries) ==
    IF error = "overloaded" /\ attempt < max_retries - 1
    THEN << [seconds |-> Pow2(attempt), jitter |-> TRUE] >>
    ELSE IF error = "parsing" /\ attempt < max_retries - 1
         THEN << [seconds |-> 1, jitter |-> FALSE] >>
         ELSE << >>

\* variant: an error that is neither overload nor parsing ends the loop
LoopsOn_TransientOnly(error, attempt, max_retries) ==
    IF error = "overloaded" /\ attempt < max_retries - 1 THEN TRUE
    ELSE IF error = "parsing" /\ attempt < max_retries - 1 THEN TRUE
    ELSE FALSE

\* whether the for loop goes on after an error: continue, or no break
LoopsOn(error, attempt, max_retries) ==
    IF error = "overloaded" /\ attempt < max_retries - 1 THEN TRUE
    ELSE IF error = "parsing" /\ attempt < max_retries - 1 THEN TRUE
    ELSE attempt # max_retries - 1

InvokeInit ==
    /\ pc = "invoke_chain_with_fallback"
    /\ \E m \in 0..MaxRetries :
          invocation = Some([max_retries |-> m, attempt |-> 0,
                             last_error |-> None, slept |-> << >>])
    /\ returned = None
    /\ history = << >>
    /\ now = 0
    /\ rate_limiter = None
    /\ ip_blocklist = None
    /\ plots_file = None
    /\ runs = << >>
    /\ StateIdle

\* one pass of the for loop: chain.invoke, then return or the except branch
InvokeAttempt ==
    /\ pc = "invoke_chain_with_fallback"
    /\ LET v == Get(invocation)
       IN  /\ v.attempt < v.max_retries
           /\ \E o \in ChainOutcomes :
                 /\ history' = Append(history, o)
                 /\ IF o = "result"
                    THEN /\ returned' = Some([kind |-> "result", call |-> Len(history) + 1])
                         /\ pc' = "returned"
                         /\ invocation' = invocation
                    ELSE /\ returned' = returned
                         /\ pc' = pc
                         /\ invocation' =
                               Some([v EXCEPT
                                       !.last_error = Some(o),
                                       !.slept = @ \o SleepAfter(o, v.attempt, v.max_retries),
                                       !.attempt =
                                          IF LoopsOn(o, v.attempt, v.max_retries)
                                          THEN v.attempt + 1 ELSE v.max_retries])
    /\ UNCHANGED << now, rate_limiter, ip_blocklist, plots_file, runs >>
    /\ UNCHANGED state_vars

\* after the loop: return self.create_fallback_response(inputs, last_error)
InvokeFallback ==
    /\ pc = "invoke_chain_with_fallback"
    /\ Get(invocation).attempt >= Get(invocation).max_retries
    /\ returned' = Some([kind |-> "fallback", error |-> Get(invocation).last_error])
    /\ pc' = "returned"
    /\ UNCHANGED << invocation, history, now, rate_limiter, ip_blocklist,
                    plots_file, runs >>
    /\ UNCHANGED state_vars

InvokeNext == InvokeAttempt \/ InvokeFallback

InvokeSpec == InvokeInit /\ [][InvokeNext]_vars

(***************************************************************************)
(* nodes.py: CodeExecutionNode.execute in runs that share the process's    *)
(* working directory.  runs[r] is the state of run r, plots_file the run   *)
(* whose code wrote plots/visualization.html last (absent at first).       *)
(***************************************************************************)
RunIds == 1..2

\* what the generated code of a run does when executed: whether it exists,
\* writes plots/visualization.html, names a plotting library, raises
RunCode(present, writes, indicator, raises) ==
    [present |-> present, writes |-> writes, indicator |-> indicator,
     raises |-> raises]

RunCodes ==
    { RunCode(FALSE, FALSE, FALSE, FALSE), RunCode(TRUE, TRUE, TRUE, FALSE),
      RunCode(TRUE, FALSE, TRUE, FALSE), RunCode(TRUE, FALSE, FALSE, FALSE),
      RunCode(TRUE, TRUE, TRUE, TRUE), RunCode(TRUE, FALSE, FALSE, TRUE) }

\* ExecutionResult(success, visualization_created, file_paths)
ExecutionResult(success, viz_created, file_paths) ==
    [success |-> success, visualization_created |-> viz_created,
     file_paths |-> file_paths]

\* _get_created_files: the file at the fixed path when it exists, named here
\* by the run that wrote it
CreatedFiles(file) == IF IsSome(file) THEN << Get(file) >> ELSE << >>

RunsInit ==
    /\ pc = "runs"
    /\ runs \in [RunIds -> { [pc |-> "execute_code", query_type |-> t, code |-> c,
                              execution_result |-> None] :
                                t \in { "general", "visualization" }, c \in RunCodes }]
    /\ plots_file = None
    /\ invocation = None
    /\ returned = None
    /\ history = << >>
    /\ now = 0
    /\ rate_limiter = None
    /\ ip_blocklist = None
    /\ StateIdle

\* execute up to the end of py_tool.invoke: no code, or the code runs and may
\* write the file before it ends or raises
ExecuteCode(r) ==
    /\ runs[r].pc = "execute_code"
    /\ LET code == runs[r].code
       IN  /\ plots_file' = IF code.present /\ code.writes THEN Some(r) ELSE plots_file
           /\ runs' =
                 [runs EXCEPT ![r] =
                    IF ~code.present \/ code.raises
                    THEN [@ EXCEPT !.pc = "done",
                                   !.execution_result =
                                      Some(ExecutionResult(FALSE, FALSE, << >>))]
                    ELSE [@ EXCEPT !.pc = "collect"]]
    /\ UNCHANGED << pc, invocation, returned, history, now, rate_limiter,
                    ip_blocklist >>
    /\ UNCHANGED state_vars

\* execute after py_tool.invoke: look for created files, build the result
CollectFiles(r) ==
    /\ runs[r].pc = "collect"
    /\ LET created_files ==
              IF runs[r].query_type = "visualization"
              THEN CreatedFiles(plots_file) ELSE << >>
           viz_created ==
              /\ runs[r].query_type = "visualization"
              /\ Len(created_files) > 0 \/ runs[r].code.indicator
       IN  runs' = [runs EXCEPT ![r] =
                      [@ EXCEPT !.pc = "done",
                                !.execution_result =
                                   Some(ExecutionResult(TRUE, viz_created, created_files))]]
    /\ UNCHANGED << pc, plots_file, invocation, returned, history, now,
                    rate_limiter, ip_blocklist >>
    /\ UNCHANGED state_vars

RunsNext == \E r \in RunIds : ExecuteCode(r) \/ CollectFiles(r)

RunsSpec == RunsInit /\ [][RunsNext]_vars

(***************************************************************************)
(* echarts_router applied on its own to chart hints in several spellings.  *)
(***************************************************************************)
G_heatmap == << "h", "e", "a", "t", "m", "a", "p" >>

G_bars == << "b", "a", "r", "s" >>

\* str.upper()
Upper(s) ==
    [i \in 1..Len(s) |->
        IF \E k \in 1..26 : Letters[k] = s[i]
        THEN Capitals[CHOOSE k \in 1..26 : Letters[k] = s[i]]
        ELSE s[i]]

\* str.capitalize() of a lower-case text
Capitalized(s) == IF s = << >> THEN s ELSE SubSeq(Upper(s), 1, 1) \o Tail(s)

Padded(s) == << " " >> \o s \o << " ", "\t" >>

ChartNames ==
    { G_bar, G_bar_chart, G_column, G_line, G_line_chart, G_pie, G_donut,
      G_doughnut, G_scatter, G_bubble, G_heatmap, G_bars, << >> }

\* values of state["graph_type"]
ChartHints ==
    { None } \cup
    { Some(t) : t \in UNION { { n, Upper(n), Capitalized(n), Padded(n), Padded(Upper(n)) } :
                                 n \in ChartNames } }

RouterInit ==
    /\ pc = "echarts_router"
    /\ graph_type \in ChartHints
    /\ returned = None
    /\ invocation = None
    /\ history = << >>
    /\ now = 0
    /\ rate_limiter = None
    /\ ip_blocklist = None
    /\ plots_file = None
    /\ runs = << >>
    /\ ServicesIdle
    /\ last = ""
    /\ sheet = None
    /\ query = << >>
    /\ selected_sheets = NoSheets
    /\ analysis_classification = None
    /\ analysis_type = ""
    /\ df = [kind |-> "none"]
    /\ writer_request = None
    /\ code_generation_result = None
    /\ code_review_result = None
    /\ first_review_result = None
    /\ review_attempts = 0
    /\ max_review_attempts = 3
    /\ review_calls = 0
    /\ error_log = << >>
    /\ safe_code = None
    /\ exec_outcome = ""
    /\ execution_result = None
    /\ analysis_result = None
    /\ response_df = None
    /\ response = [stage |-> "", status |-> "", error |-> None,
                   approved |-> None, attempt |-> 0]
    /\ chains_present = TRUE
    /\ run_output = None
    /\ echart_code = None
    /\ echart_sample_code = None
    /\ designed_echart_code = None

\* returned = echarts_router(state)
RouteChart ==
    /\ pc = "echarts_router"
    /\ returned' = Some(echarts_router(graph_type))
    /\ pc' = "returned"
    /\ UNCHANGED << invocation, history, now, rate_limiter, ip_blocklist,
                    plots_file, runs >>
    /\ UNCHANGED state_vars

RouterNext == RouteChart

RouterSpec == RouterInit /\ [][RouterNext]_vars

(***************************************************************************)
(* EchartsDesignMergeNode called twice on the same state, with the chart   *)
(* options spelled out: non-data fields title and color, data field        *)
(* series.  history holds what each call stored in designed_echart_code.   *)
(***************************************************************************)
ChartOption(title, color, series) ==
    [title |-> title, color |-> color, series |-> series]

\* values of state["echart_code"]
SourceOptions ==
    { ChartOption("Sales", "red", << 1, 2 >>), ChartOption("Sales", "red", << 3 >>),
      ChartOption("Skills", "green", << 5, 5 >>) }

\* values of state["echart_sample_code"]
TemplateOptions ==
    { ChartOption("Template", "blue", << 0, 0 >>),
      ChartOption("Dark", "black", << 0 >>) }

\* texts the merge service can return for these inputs: the template with the
\* source's data, the same with the source's title, the template as it is
MergeOutputs(previous_code, sample_code) ==
    { [sample_code EXCEPT !.series = previous_code.series],
      [sample_code EXCEPT !.series = previous_code.series,
                          !.title = previous_code.title],
      sample_code }

MergeInit ==
    /\ pc = "merge"
    /\ echart_code \in { Some(o) : o \in SourceOptions }
    /\ echart_sample_code \in { Some(o) : o \in TemplateOptions }
    /\ designed_echart_code = None
    /\ error_log = << >>
    /\ history = << >>
    /\ invocation = None
    /\ returned = None
    /\ now = 0
    /\ rate_limiter = None
    /\ ip_blocklist = None
    /\ plots_file = None
    /\ runs = << >>
    /\ ServicesIdle
    /\ last = ""
    /\ sheet = None
    /\ query = << >>
    /\ graph_type = None
    /\ selected_sheets = NoSheets
    /\ analysis_classification = None
    /\ analysis_type = ""
    /\ df = [kind |-> "none"]
    /\ writer_request = None
    /\ code_generation_result = None
    /\ code_review_result = None
    /\ first_review_result = None
    /\ review_attempts = 0
    /\ max_review_attempts = 3
    /\ review_calls = 0
    /\ safe_code = None
    /\ exec_outcome = ""
    /\ execution_result = None
    /\ analysis_result = None
    /\ response_df = None
    /\ response = [stage |-> "", status |-> "", error |-> None,
                   approved |-> None, attempt |-> 0]
    /\ chains_present = TRUE
    /\ run_output = None

\* EchartsDesignMergeNode.__call__ with both inputs present: the text the
\* service returns is stored as it is, a raised error is logged
MergeCall ==
    /\ pc \in { "merge", "merge again" }
    /\ \/ /\ \E merged_code \in MergeOutputs(Get(echart_code), Get(echart_sample_code)) :
                designed_echart_code' = Some(merged_code)
          /\ error_log' = error_log
       \/ MergeFailure
    /\ history' = Append(history, designed_echart_code')
    /\ pc' = IF pc = "merge" THEN "merge again" ELSE "merged twice"
    /\ UNCHANGED << invocation, returned, now, rate_limiter, ip_blocklist,
                    plots_file, runs >>
    /\ UNCHANGED service_vars
    /\ UNCHANGED << last, sheet, query, graph_type, selected_sheets,
                    analysis_classification, analysis_type, df, writer_request,
                    code_generation_result, code_review_result,
                    first_review_result, review_attempts, max_review_attempts,
                    review_calls, safe_code, exec_outcome, execution_result,
                    analysis_result, response_df, response, chains_present,
                    run_output, echart_code, echart_sample_code >>

MergeNext == MergeCall

MergeSpec == MergeInit /\ [][MergeNext]_vars

(***************************************************************************)
(* security.py: RateLimiter.  The clock is read as a whole number of       *)
(* seconds and successive readings do not decrease.  history holds every   *)
(* call with the time it read and the value it returned.                   *)
(***************************************************************************)
Clients == { "client1", "client2" }

\* self.requests[client_id] of the defaultdict, without creating the entry
RequestsOf(limiter, c) ==
    IF c \in DOMAIN limiter.requests THEN limiter.requests[c] ELSE << >>

\* [req_time for req_time in times if req_time > minute_ago]
RECURSIVE After(_, _)
After(times, minute_ago) ==
    IF times = << >> THEN << >>
    ELSE IF Head(times) > minute_ago
         THEN << Head(times) >> \o After(Tail(times), minute_ago)
         ELSE After(Tail(times), minute_ago)

\* variant: the limit itself is still let through
OverLimit_Strict(count, requests_per_minute) == count > requests_per_minute

\* len(self.requests[client_id]) >= self.requests_per_minute
OverLimit(count, requests_per_minute) == count >= requests_per_minute

\* variant: every recorded request counts, however old
CurrentRequests_All(times, minute_ago) == Len(times)

\* len([req_time for req_time in ... if req_time > minute_ago])
CurrentRequests(times, minute_ago) == Len(After(times, minute_ago))

\* d, with d[c] set to v (the key is created when missing)
Assign(d, c, v) == [k \in DOMAIN d \cup { c } |-> IF k = c THEN v ELSE d[k]]

\* returned values, by Python type
BoolV(b) == [bool |-> b]

IntV(n) == [int |-> n]

Call(op, c, t, result) == [op |-> op, client |-> c, time |-> t, result |-> result]

LimiterInit ==
    /\ pc = "RateLimiter"
    /\ \E n \in 1..MaxPerMinute :
          rate_limiter = Some([requests_per_minute |-> n, requests |-> << >>])
    /\ now = 0
    /\ history = << >>
    /\ returned = None
    /\ invocation = None
    /\ ip_blocklist = None
    /\ plots_file = None
    /\ runs = << >>
    /\ StateIdle

\* time passes between two calls
Tick ==
    /\ \E d \in { 30, 60 } :
          /\ now + d <= MaxClock
          /\ now' = now + d
    /\ UNCHANGED << pc, rate_limiter, ip_blocklist, history, returned,
                    invocation, plots_file, runs >>
    /\ UNCHANGED state_vars

\* RateLimiter.is_allowed(client_id)
IsAllowed(c) ==
    /\ pc = "RateLimiter"
    /\ Len(history) < MaxCalls
    /\ LET limiter == Get(rate_limiter)
           minute_ago == now - 60
           cleaned == After(RequestsOf(limiter, c), minute_ago)
           denied == OverLimit(Len(cleaned), limiter.requests_per_minute)
       IN  /\ rate_limiter' =
                 Some([limiter EXCEPT
                         !.requests =
                            Assign(@, c, IF denied THEN cleaned
                                         ELSE Append(cleaned, now))])
           /\ returned' = Some(BoolV(~denied))
           /\ history' = Append(history, Call("is_allowed", c, now, BoolV(~denied)))
    /\ UNCHANGED << pc, now, ip_blocklist, invocation, plots_file, runs >>
    /\ UNCHANGED state_vars

\* RateLimiter.get_remaining(client_id); reading self.requests[client_id]
\* creates the entry of a client not seen before
GetRemaining(c) ==
    /\ pc = "RateLimiter"
    /\ Len(history) < MaxCalls
    /\ LET limiter == Get(rate_limiter)
           minute_ago == now - 60
           current_requests == CurrentRequests(RequestsOf(limiter, c), minute_ago)
           remaining == IF limiter.requests_per_minute - current_requests > 0
                        THEN limiter.requests_per_minute - current_requests ELSE 0
       IN  /\ rate_limiter' =
                 Some([limiter EXCEPT !.requests = Assign(@, c, RequestsOf(limiter, c))])
           /\ returned' = Some(IntV(remaining))
           /\ history' = Append(history, Call("get_remaining", c, now, IntV(remaining)))
    /\ UNCHANGED << pc, now, ip_blocklist, invocation, plots_file, runs >>
    /\ UNCHANGED state_vars

LimiterNext ==
    \/ Tick
    \/ \E c \in Clients : IsAllowed(c)
    \/ \E c \in Clients : GetRemaining(c)

LimiterSpec == LimiterInit /\ [][LimiterNext]_vars

(***************************************************************************)
(* IPBlocklist: the addresses blocked after repeated suspicious activity.  *)
(***************************************************************************)
IPs == { "ip1", "ip2" }

\* the value None of a method that returns nothing
NoneV == [none |-> TRUE]

\* self.suspicious_activity[ip] of the defaultdict(int), without inserting
ActivityOf(blocklist, ip) ==
    IF ip \in DOMAIN blocklist.suspicious_activity
    THEN blocklist.suspicious_activity[ip] ELSE 0

Remove_Keeps(d, k) == d

\* d.pop(k, None)
Remove(d, k) == [j \in DOMAIN d \ { k } |-> d[j]]

ReachedThreshold_Strict(count, threshold) == count > threshold

\* self.suspicious_activity[ip] >= self.threshold
ReachedThreshold(count, threshold) == count >= threshold

BlocklistInit ==
    /\ pc = "IPBlocklist"
    /\ \E n \in 1..MaxThreshold :
          ip_blocklist = Some([blocked_ips |-> { },
                               suspicious_activity |-> << >>,
                               threshold |-> n])
    /\ now = 0
    /\ history = << >>
    /\ returned = None
    /\ invocation = None
    /\ rate_limiter = None
    /\ plots_file = None
    /\ runs = << >>
    /\ StateIdle

\* IPBlocklist.is_blocked(ip)
IsBlocked(ip) ==
    /\ pc = "IPBlocklist"
    /\ Len(history) < MaxCalls
    /\ LET blocklist == Get(ip_blocklist)
           blocked == ip \in blocklist.blocked_ips
       IN  /\ returned' = Some(BoolV(blocked))
           /\ history' = Append(history, Call("is_blocked", ip, now, BoolV(blocked)))
    /\ UNCHANGED << pc, now, ip_blocklist, rate_limiter, invocation, plots_file, runs >>
    /\ UNCHANGED state_vars

\* IPBlocklist.record_suspicious_activity(ip)
RecordSuspiciousActivity(ip) ==
    /\ pc = "IPBlocklist"
    /\ Len(history) < MaxCalls
    /\ LET blocklist == Get(ip_blocklist)
           count == ActivityOf(blocklist, ip) + 1
       IN  /\ ip_blocklist' =
                 Some([blocklist EXCEPT
                         !.suspicious_activity = Assign(@, ip, count),
                         !.blocked_ips =
                            IF ReachedThreshold(count, blocklist.threshold)
                            THEN @ \cup { ip } ELSE @])
           /\ returned' = Some(NoneV)
           /\ history' = Append(history,
                                Call("record_suspicious_activity", ip, now, NoneV))
    /\ UNCHANGED << pc, now, rate_limiter, invocation, plots_file, runs >>
    /\ UNCHANGED state_vars

\* IPBlocklist.unblock(ip)
Unblock(ip) ==
    /\ pc = "IPBlocklist"
    /\ Len(history) < MaxCalls
    /\ LET blocklist == Get(ip_blocklist)
       IN  /\ ip_blocklist' =
                 Some([blocklist EXCEPT
                         !.blocked_ips = @ \ { ip },
                         !.suspicious_activity = Remove(@, ip)])
           /\ returned' = Some(NoneV)
           /\ history' = Append(history, Call("unblock", ip, now, NoneV))
    /\ UNCHANGED << pc, now, rate_limiter, invocation, plots_file, runs >>
    /\ UNCHANGED state_vars

BlocklistNext ==
    \/ \E ip \in IPs : IsBlocked(ip)
    \/ \E ip \in IPs : RecordSuspiciousActivity(ip)
    \/ \E ip \in IPs : Unblock(ip)

BlocklistSpec == BlocklistInit /\ [][BlocklistNext]_vars

(***************************************************************************)
(* InputSanitizer.validate_filename: the check of an uploaded file's name. *)
(***************************************************************************)
\* the character "\x00", which a TLA+ string cannot hold
NUL == "NUL"

Digits == { "0", "1", "2", "3", "4", "5", "6", "7", "8", "9" }

NameChars == { "a", "Z", "7", "_", "-", ".", " ", "/", "\\", NUL, "\n", ";" }

\* \w of a str pattern, on the characters of NameChars
WordChar(c) ==
    \/ \E i \in 1..26 : Letters[i] = c \/ Capitals[i] = c
    \/ c \in Digits
    \/ c = "_"

\* the class [\w\-. ]
SafeClass(c) == WordChar(c) \/ c \in { "-", ".", " " }

\* where $ matches in s without re.MULTILINE: at the end, and before a
\* newline that is the last character
DollarAt(s) ==
    { Len(s) } \cup
    (IF Len(s) > 0 /\ s[Len(s)] = "\n" THEN { Len(s) - 1 } ELSE { })

\* re.match(r"^[\w\-. ]+$", s)
MatchSafePattern(s) ==
    \E k \in DollarAt(s) :
       /\ k >= 1
       /\ \A i \in 1..k : SafeClass(s[i])

validate_filename(filename) ==
    IF filename = << >> THEN FALSE
    ELSE IF \E pattern \in { << ".", "." >>, << "/" >>, << "\\" >>, << NUL >> } :
               Contains(pattern, filename)
         THEN FALSE
         ELSE MatchSafePattern(filename)

FilenameInit ==
    /\ pc = "InputSanitizer"
    /\ \E filename \in SeqsUpTo(NameChars, MaxNameLen) :
          invocation = Some(filename)
    /\ returned = None
    /\ history = << >>
    /\ now = 0
    /\ rate_limiter = None
    /\ ip_blocklist = None
    /\ plots_file = None
    /\ runs = << >>
    /\ StateIdle

ValidateFilename ==
    /\ pc = "InputSanitizer"
    /\ returned' = Some(BoolV(validate_filename(Get(invocation))))
    /\ pc' = "validated"
    /\ UNCHANGED << invocation, history, now, rate_limiter, ip_blocklist,
                    plots_file, runs >>
    /\ UNCHANGED state_vars

FilenameNext == ValidateFilename

FilenameSpec == FilenameInit /\ [][FilenameNext]_vars

(***************************************************************************)
(* graph.py: the graph DataAnalysisWorkflow._build_graph compiles, run on  *)
(* one AnalysisState.  pc is the node to execute next, history the nodes   *)
(* executed so far.                                                        *)
(***************************************************************************)
\* values of current_code: no code, some code
GraphCodes == { << >>, << "x", "=", "1" >> }

\* AnalysisState(user_query=..., df=...), started with max_retries
InitialState(max_retries) ==
    [classification |-> None,
     extracted_data |-> FALSE,
     code_review |-> None,
     execution_result |-> None,
     final_results |-> None,
     current_code |-> << >>,
     retry_count |-> 0,
     max_retries |-> max_retries]

classify_query_edge(s) ==
    IF ~IsSome(s.classification) THEN "final_results"
    ELSE LET query_type == Get(s.classification).query_type
         IN  IF query_type = "visualization" THEN "data_extraction"
             ELSE IF /\ query_type = "general"
                     /\ Get(s.classification).requires_data_filtering
                  THEN "data_extraction"
                  ELSE "final_results"

data_ready_edge(s) ==
    IF ~IsSome(s.classification) THEN "final_results"
    ELSE IF /\ Get(s.classification).query_type = "visualization"
            /\ s.extracted_data
         THEN "generate_visualization"
         ELSE "final_results"

code_review_edge_PastLimit(s) ==
    IF IsSome(s.code_review) /\ Get(s.code_review).review_status = "approved"
    THEN "execute_code"
    ELSE IF s.retry_count > s.max_retries THEN "execute_code"
         ELSE "rewrite_code"

code_review_edge(s) ==
    IF IsSome(s.code_review) /\ Get(s.code_review).review_status = "approved"
    THEN "execute_code"
    ELSE IF s.retry_count >= s.max_retries THEN "execute_code"
         ELSE "rewrite_code"

execution_retry_edge_SuccessOnly(s) ==
    IF IsSome(s.execution_result) /\ Get(s.execution_result).success
    THEN "final_results"
    ELSE "rewrite_code"

execution_retry_edge(s) ==
    IF IsSome(s.execution_result) /\ Get(s.execution_result).success
    THEN "final_results"
    ELSE IF s.retry_count >= s.max_retries THEN "final_results"
         ELSE "rewrite_code"

\* QueryClassificationNode.execute
classify_query(s) ==
    { [s EXCEPT !.classification = Some(c)] :
         c \in ServiceClassifications \cup { FallbackClassification } }

\* DataExtractionNode.execute: whether the next node sees extracted data
extract_data(s) == { [s EXCEPT !.extracted_data = b] : b \in BOOLEAN }

\* EchartsVisualizationNode.execute: the synthesized code
generate_echarts(s) == { [s EXCEPT !.current_code = code] : code \in GraphCodes }

\* CodeReviewNode.execute
review_code(s) ==
    IF s.current_code = << >>
    THEN { [s EXCEPT !.code_review = Some([review_status |-> "needs_rewrite"])] }
    ELSE { [s EXCEPT !.code_review = Some([review_status |-> status])] :
              status \in { "approved", "needs_rewrite" } }

\* CodeRewriteNode.execute
rewrite_code(s) ==
    { [s EXCEPT !.current_code = code, !.retry_count = @ + 1] : code \in GraphCodes }

\* CodeExecutionNode.execute
execute_code(s) ==
    IF s.current_code = << >>
    THEN { [s EXCEPT !.execution_result = Some([success |-> FALSE])] }
    ELSE { [s EXCEPT !.execution_result = Some([success |-> ok])] : ok \in BOOLEAN }

\* FinalResultsNode.execute
final_results(s) ==
    { [s EXCEPT !.final_results = Some([success |-> ok])] : ok \in BOOLEAN }

GraphNodes ==
    { "classify_query", "extract_data", "generate_echarts", "review_code",
      "rewrite_code", "execute_code", "final_results" }

\* workflow.add_node(name, node.execute)
NodeOutputs(node, s) ==
    CASE node = "classify_query" -> classify_query(s)
      [] node = "extract_data" -> extract_data(s)
      [] node = "generate_echarts" -> generate_echarts(s)
      [] node = "review_code" -> review_code(s)
      [] node = "rewrite_code" -> rewrite_code(s)
      [] node = "execute_code" -> execute_code(s)
      [] node = "final_results" -> final_results(s)

\* the router of the conditional edge that leaves node
RouterResult(node, s) ==
    CASE node = "classify_query" -> classify_query_edge(s)
      [] node = "extract_data" -> data_ready_edge(s)
      [] node \in { "generate_echarts", "review_code", "rewrite_code" } ->
            code_review_edge(s)
      [] node = "execute_code" -> execution_retry_edge(s)

\* the path map of the conditional edge that leaves node
PathMap(node) ==
    CASE node = "classify_query" ->
            [data_extraction |-> "extract_data", final_results |-> "final_results"]
      [] node = "extract_data" ->
            [generate_visualization |-> "generate_echarts",
             final_results |-> "final_results"]
      [] node \in { "generate_echarts", "review_code" } ->
            [execute_code |-> "execute_code", rewrite_code |-> "rewrite_code"]
      [] node = "rewrite_code" ->
            [execute_code |-> "execute_code", review_code |-> "review_code"]
      [] node = "execute_code" ->
            [final_results |-> "final_results", rewrite_code |-> "rewrite_code"]

\* the node after node: END after final_results; a router result that is no
\* key of the path map fails the run
Successor(node, s) ==
    IF node = "final_results" THEN "END"
    ELSE IF RouterResult(node, s) \in DOMAIN PathMap(node)
         THEN PathMap(node)[RouterResult(node, s)]
         ELSE "routing failed"

GraphInit ==
    /\ pc = "classify_query"
    /\ \E max_retries \in 0..MaxRetriesBound :
          analysis_state = Some(InitialState(max_retries))
    /\ analysis_results = << >>
    /\ handlers = << >>
    /\ ComponentsIdle
    /\ WorkflowIdle

GraphStep(node) ==
    /\ pc = node
    /\ \E s \in NodeOutputs(node, Get(analysis_state)) :
          /\ analysis_state' = Some(s)
          /\ pc' = Successor(node, s)
    /\ history' = Append(history, node)
    /\ UNCHANGED << invocation, returned, now, rate_limiter, ip_blocklist,
                    plots_file, runs, analysis_results, handlers >>
    /\ UNCHANGED workflow_vars

GraphNext == \E node \in GraphNodes : GraphStep(node)

GraphSpec == GraphInit /\ [][GraphNext]_vars

(***************************************************************************)
(* edges.py: the two routers of the retry loop, applied to an              *)
(* AnalysisState.  history names the router applied, returned its result.  *)
(***************************************************************************)
\* the AnalysisStates of a run that has generated code
EdgeStates ==
    { [InitialState(max_retries) EXCEPT
          !.code_review = review,
          !.execution_result = result,
          !.retry_count = retry_count] :
         max_retries \in 0..MaxRetriesBound,
         retry_count \in 0..MaxRetriesBound,
         review \in { None } \cup
                    { Some([review_status |-> status]) :
                         status \in { "approved", "needs_rewrite" } },
         result \in { None } \cup { Some([success |-> ok]) : ok \in BOOLEAN } }

EdgesInit ==
    /\ pc = "edges"
    /\ \E s \in EdgeStates : analysis_state = Some(s)
    /\ analysis_results = << >>
    /\ handlers = << >>
    /\ ComponentsIdle
    /\ WorkflowIdle

CodeReviewEdge ==
    /\ pc = "edges"
    /\ returned' = Some(code_review_edge(Get(analysis_state)))
    /\ history' = << "code_review_edge" >>
    /\ pc' = "routed"
    /\ UNCHANGED << invocation, now, rate_limiter, ip_blocklist, plots_file, runs >>
    /\ UNCHANGED service_vars
    /\ UNCHANGED workflow_vars

ExecutionRetryEdge ==
    /\ pc = "edges"
    /\ returned' = Some(execution_retry_edge(Get(analysis_state)))
    /\ history' = << "execution_retry_edge" >>
    /\ pc' = "routed"
    /\ UNCHANGED << invocation, now, rate_limiter, ip_blocklist, plots_file, runs >>
    /\ UNCHANGED service_vars
    /\ UNCHANGED workflow_vars

EdgesNext == CodeReviewEdge \/ ExecutionRetryEdge

EdgesSpec == EdgesInit /\ [][EdgesNext]_vars

(***************************************************************************)
(* routes/data_analysis.py and services/data_analysis.py: the task store   *)
(* analysis_results and the handlers that fill it.  handlers[t] is the     *)
(* request that owns task id t: which handler it runs, the await it has    *)
(* reached, and its response once it has finished.  returned is the        *)
(* response of the latest result fetch.                                    *)
(***************************************************************************)
\* task ids, each a fresh uuid4
TaskIds == { "task1", "task2" }

ProcessingEntry(progress) ==
    [status |-> "processing", progress |-> progress, result |-> None]

FailedEntry == [status |-> "failed", progress |-> 0, result |-> None]

CompletedEntry(result) ==
    [status |-> "completed", progress |-> 100, result |-> Some(result)]

\* variant: a workflow error is answered without touching the store
OnWorkflowError_EntryKept(entry) == entry

\* the entry stored by the except branch around run_analysis
OnWorkflowError(entry) == FailedEntry

Handler(name, at, answer) == [handler |-> name, at |-> at, response |-> answer]

Finished(name, status_code) == Handler(name, "finished", Some(status_code))

TasksInit ==
    /\ pc = "routes"
    /\ analysis_results = << >>
    /\ handlers = << >>
    /\ analysis_state = None
    /\ ComponentsIdle
    /\ WorkflowIdle

\* POST /analyze/{file_id}: task_id = str(uuid.uuid4()), then the file lookup
StartAnalysis(t) ==
    /\ pc = "routes"
    /\ t \notin DOMAIN handlers
    /\ handlers' = Assign(handlers, t, Handler("start_analysis", "db.execute", None))
    /\ UNCHANGED << pc, analysis_results, analysis_state >>
    /\ UNCHANGED component_vars
    /\ UNCHANGED workflow_vars

\* start_analysis from the answer of the file lookup to the call of the
\* workflow: the entry is created, the file loaded, the prompt validated
StartLoad(t) ==
    /\ pc = "routes"
    /\ t \in DOMAIN handlers
    /\ handlers[t] = Handler("start_analysis", "db.execute", None)
    /\ \E lookup \in { "raises", "no file", "file" },
          loaded \in BOOLEAN, prompt_ok \in BOOLEAN :
          CASE lookup = "raises" ->
                  /\ analysis_results' = Assign(analysis_results, t, FailedEntry)
                  /\ handlers' = Assign(handlers, t, Finished("start_analysis", 500))
            [] lookup = "no file" ->
                  /\ analysis_results' = analysis_results
                  /\ handlers' = Assign(handlers, t, Finished("start_analysis", 404))
            [] lookup = "file" /\ ~(loaded /\ prompt_ok) ->
                  /\ analysis_results' = Assign(analysis_results, t, FailedEntry)
                  /\ handlers' = Assign(handlers, t, Finished("start_analysis", 400))
            [] OTHER ->
                  /\ analysis_results' = Assign(analysis_results, t, ProcessingEntry(75))
                  /\ handlers' =
                        Assign(handlers, t, Handler("start_analysis", "run_analysis", None))
    /\ UNCHANGED << pc, analysis_state >>
    /\ UNCHANGED component_vars
    /\ UNCHANGED workflow_vars

\* start_analysis from the end of run_analysis to the save of the result
StartWorkflow(t) ==
    /\ pc = "routes"
    /\ t \in DOMAIN handlers
    /\ handlers[t] = Handler("start_analysis", "run_analysis", None)
    /\ \E raised \in BOOLEAN :
          IF raised
          THEN /\ analysis_results' =
                     Assign(analysis_results, t, OnWorkflowError(analysis_results[t]))
               /\ handlers' = Assign(handlers, t, Finished("start_analysis", 500))
          ELSE /\ analysis_results' = analysis_results
               /\ handlers' =
                     Assign(handlers, t,
                            Handler("start_analysis", "save_analysis_result", None))
    /\ UNCHANGED << pc, analysis_state >>
    /\ UNCHANGED component_vars
    /\ UNCHANGED workflow_vars

\* start_analysis from the save (kept, or given up after two failures) to
\* its return; an error on the way reaches the outer except branch
StartFinish(t) ==
    /\ pc = "routes"
    /\ t \in DOMAIN handlers
    /\ handlers[t] = Handler("start_analysis", "save_analysis_result", None)
    /\ \E unexpected \in BOOLEAN :
          IF unexpected
          THEN /\ analysis_results' = Assign(analysis_results, t, FailedEntry)
               /\ handlers' = Assign(handlers, t, Finished("start_analysis", 500))
          ELSE /\ analysis_results' =
                     Assign(analysis_results, t, CompletedEntry("analysis_result"))
               /\ handlers' = Assign(handlers, t, Finished("start_analysis", 200))
    /\ UNCHANGED << pc, analysis_state >>
    /\ UNCHANGED component_vars
    /\ UNCHANGED workflow_vars

\* run_background_analysis up to the file lookup, for a task id that has no
\* entry yet
BackgroundBegin(t) ==
    /\ pc = "routes"
    /\ t \notin DOMAIN handlers
    /\ analysis_results' =
          IF t \in DOMAIN analysis_results THEN analysis_results
          ELSE Assign(analysis_results, t, ProcessingEntry(0))
    /\ handlers' =
          Assign(handlers, t, Handler("run_background_analysis", "get_file_by_id", None))
    /\ UNCHANGED << pc, analysis_state >>
    /\ UNCHANGED component_vars
    /\ UNCHANGED workflow_vars

\* run_background_analysis from the file lookup to the call of the workflow
BackgroundLoad(t) ==
    /\ pc = "routes"
    /\ t \in DOMAIN handlers
    /\ handlers[t] = Handler("run_background_analysis", "get_file_by_id", None)
    /\ \E ok \in BOOLEAN :
          IF ok
          THEN /\ analysis_results' =
                     Assign(analysis_results, t, [analysis_results[t] EXCEPT !.progress = 25])
               /\ handlers' =
                     Assign(handlers, t,
                            Handler("run_background_analysis", "run_analysis", None))
          ELSE /\ analysis_results' = Assign(analysis_results, t, FailedEntry)
               /\ handlers' = Assign(handlers, t, Finished("run_background_analysis", 0))
    /\ UNCHANGED << pc, analysis_state >>
    /\ UNCHANGED component_vars
    /\ UNCHANGED workflow_vars

\* run_background_analysis from the end of run_analysis to the save
BackgroundWorkflow(t) ==
    /\ pc = "routes"
    /\ t \in DOMAIN handlers
    /\ handlers[t] = Handler("run_background_analysis", "run_analysis", None)
    /\ \E raised \in BOOLEAN :
          IF raised
          THEN /\ analysis_results' = Assign(analysis_results, t, FailedEntry)
               /\ handlers' = Assign(handlers, t, Finished("run_background_analysis", 0))
          ELSE /\ analysis_results' =
                     Assign(analysis_results, t, [analysis_results[t] EXCEPT !.progress = 75])
               /\ handlers' =
                     Assign(handlers, t,
                            Handler("run_background_analysis", "save_analysis_result", None))
    /\ UNCHANGED << pc, analysis_state >>
    /\ UNCHANGED component_vars
    /\ UNCHANGED workflow_vars

\* run_background_analysis after the save: completed whether it was kept or not
BackgroundFinish(t) ==
    /\ pc = "routes"
    /\ t \in DOMAIN handlers
    /\ handlers[t] = Handler("run_background_analysis", "save_analysis_result", None)
    /\ analysis_results' = Assign(analysis_results, t, CompletedEntry("analysis_result"))
    /\ handlers' = Assign(handlers, t, Finished("run_background_analysis", 0))
    /\ UNCHANGED << pc, analysis_state >>
    /\ UNCHANGED component_vars
    /\ UNCHANGED workflow_vars

\* the response of GET /result/{task_id}
ResultResponse(results, t) ==
    IF t \notin DOMAIN results THEN [task |-> t, status_code |-> 404, body |-> None]
    ELSE IF results[t].status = "processing"
         THEN [task |-> t, status_code |-> 202, body |-> None]
         ELSE IF results[t].status = "failed"
              THEN [task |-> t, status_code |-> 500, body |-> None]
              ELSE IF ~IsSome(results[t].result)
                   THEN [task |-> t, status_code |-> 500, body |-> None]
                   ELSE [task |-> t, status_code |-> 200, body |-> results[t].result]

GetAnalysisResult(t) ==
    /\ pc = "routes"
    /\ returned' = Some(ResultResponse(analysis_results, t))
    /\ UNCHANGED << pc, invocation, history, now, rate_limiter, ip_blocklist,
                    plots_file, runs >>
    /\ UNCHANGED service_vars
    /\ UNCHANGED workflow_vars

TasksNext ==
    \E t \in TaskIds :
       \/ StartAnalysis(t)
       \/ StartLoad(t)
       \/ StartWorkflow(t)
       \/ StartFinish(t)
       \/ BackgroundBegin(t)
       \/ BackgroundLoad(t)
       \/ BackgroundWorkflow(t)
       \/ BackgroundFinish(t)
       \/ GetAnalysisResult(t)

TasksSpec == TasksInit /\ [][TasksNext]_vars

(***************************************************************************)
(* Properties of the coercion to a table.                                  *)
(***************************************************************************)
\* every row has one cell per column
WellFormedTable(t) == \A i \in 1..Len(t.rows) : Len(t.rows[i]) = Len(t.cols)

AllOfKind(items, kinds) == \A i \in 1..Len(items) : items[i].kind \in kinds

\* lengths of the values of mapping d that are sized and not text
SizedLengths(d) ==
    { LenV(d.vals[j]) : j \in { k \in 1..Len(d.vals) : d.vals[k].kind \notin { "scalar", "str" } } }

\* the cases of the coercion law other than the mapping of equal lengths
CoercionCases(v, t) ==
    /\ WellFormedTable(t)
    /\ v.kind = "df" => t = v.table
    /\ v.kind \in { "scalar", "str" } => t.cols = << "value" >> /\ Len(t.rows) = 1
    /\ (v.kind = "list" /\ v.items # << >> /\ AllOfKind(v.items, { "scalar", "str" }))
          => t.cols = << "value" >> /\ Len(t.rows) = Len(v.items)
    /\ (v.kind = "list" /\ v.items # << >> /\ AllOfKind(v.items, { "dict" }))
          => Len(t.rows) = Len(v.items)
    /\ (v.kind = "list" /\ v.items # << >> /\ v.items[1].kind = "dict"
            /\ ~AllOfKind(v.items, { "dict" }))
          => t = CoerceFailedTable
    /\ (v.kind = "dict" /\ Cardinality(SizedLengths(v)) # 1) => Len(t.rows) = 1

\* C11 as claimed: coerce_to_dataframe returns a table for every value: a
\* table maps to itself, a scalar to one row under 'value', a non-empty list
\* of scalars to one row per element under 'value', a list of records to one
\* row per record, a mapping whose sized non-text values all have the same
\* length n to n rows (or the one-row 'error' table on an internal failure),
\* any other mapping to exactly one row.
C11_CoercionLaw ==
    pc = "returned" =>
        /\ CoercionCases(Get(execution_result), Get(response_df))
        /\ (Get(execution_result).kind = "dict"
                /\ Cardinality(SizedLengths(Get(execution_result))) = 1)
              => \/ SizedLengths(Get(execution_result)) = { Len(Get(response_df).rows) }
                 \/ Get(response_df) = CoerceFailedTable

\* C11 amended: as C11, with the mapping case restricted to mappings whose
\* sized non-text values are all sequences of one common length n: these give
\* n rows under the mapping's keys.
C11_CoercionLawSequences ==
    pc = "returned" =>
        /\ CoercionCases(Get(execution_result), Get(response_df))
        /\ (Get(execution_result).kind = "dict"
                /\ Cardinality(SizedLengths(Get(execution_result))) = 1
                /\ AllOfKind(Get(execution_result).vals, { "scalar", "str", "list" }))
              => /\ SizedLengths(Get(execution_result)) = { Len(Get(response_df).rows) }
                 /\ Get(response_df).cols = Get(execution_result).keys

C11_Witness ==
    /\ pc = "returned"
    /\ Get(execution_result)
          = DictV(<< "a", "b" >>, << ListV(<< ScalarV(0), ScalarV(1) >>), StrV(2) >>)
    /\ Get(response_df) = Table(<< "a", "b" >>, << << 0, TextCell >>, << 1, TextCell >> >>)

(***************************************************************************)
(* Properties of sanitize_code.                                            *)
(***************************************************************************)
\* a line that, trimmed, starts with 'import ' or 'from ' and mentions a
\* denylisted library
DeniedImport(line) ==
    LET t == Strip(line)
    IN  /\ \/ Len(t) >= 7 /\ SubSeq(t, 1, 7) = W_import
           \/ Len(t) >= 5 /\ SubSeq(t, 1, 5) = W_from
        /\ \E p \in 1..Len(unsafe_imports) : Contains(unsafe_imports[p], t)

\* the lines that are not denied imports, in their order
RECURSIVE KeptLines(_)
KeptLines(lines) ==
    IF lines = << >> THEN << >>
    ELSE IF DeniedImport(Head(lines)) THEN KeptLines(Tail(lines))
         ELSE << Head(lines) >> \o KeptLines(Tail(lines))

\* text without its final line break, if it ends with one
DropFinalBreak(text) ==
    IF text # << >> /\ text[Len(text)] = "\n"
    THEN SubSeq(text, 1, Len(text) - 1)
    ELSE text

\* C12 as claimed: sanitize_code returns the lines of the code that are not
\* denied imports, unchanged and in order, joined by line breaks; applied to its
\* own result it returns that result.
C12_SanitizeLaw ==
    [][ /\ pc = "sanitize_code"
           => safe_code' = Some(JoinLines(KeptLines(SplitLines(CurrentCode))))
        /\ pc = "sanitized" => safe_code' = safe_code
      ]_vars

\* C12 amended: as C12, but sanitizing twice equals sanitizing once only up
\* to one final line break: the second pass returns the once-sanitized text
\* without its final line break, if it ends with one.
C12_SanitizeLawUpToFinalBreak ==
    [][ /\ pc = "sanitize_code"
           => safe_code' = Some(JoinLines(KeptLines(SplitLines(CurrentCode))))
        /\ pc = "sanitized" => safe_code' = Some(DropFinalBreak(Get(safe_code)))
      ]_vars

C12_Witness ==
    /\ pc = "sanitized twice"
    /\ CurrentCode = JoinLines(<< L_n, L_blank, L_from_indented >>) \o NL
    /\ safe_code = Some(L_n)

(***************************************************************************)
(* Properties of run_analysis.                                             *)
(***************************************************************************)
StageOutputs ==
    { "classification", "analysis", "review", "execution", "final_results",
      "generated_code" }

\* C20: called with a dataset that is absent or has no rows, run_analysis
\* returns at once a dict with success False, workflow_completed False,
\* retry_count 0 and every stage output None; no workflow is constructed
\* and no node runs, so there is no classification.
C20_NoDataFailsFast ==
    /\ [] ( ( pc = "returned" /\ ( df.kind = "none" \/ Len(df.table.rows) = 0 ) )
            => /\ IsSome(run_output)
               /\ Get(run_output).success = FALSE
               /\ Get(run_output).workflow_completed = FALSE
               /\ Get(run_output).retry_count = 0
               /\ \A k \in StageOutputs : Get(run_output)[k] = None
               /\ last = ""
               /\ analysis_classification = None )
    /\ [][ ( pc = "run_analysis" /\ ( df.kind = "none" \/ Len(df.table.rows) = 0 ) )
           => pc' = "returned" ]_vars

C20_Witness ==
    /\ pc = "returned"
    /\ df = [kind |-> "own", table |-> TableNoRows]
    /\ query = T_query_count
    /\ IsSome(run_output)
    /\ Get(run_output).error = "No data provided for analysis"
    /\ last = ""

(***************************************************************************)
(* Properties of the run as a whole.                                       *)
(***************************************************************************)
\* C21: a run never raises to its caller: whatever the input, the service
\* and the generated code do, DataAnalysisLCELWorkflow.run hands back a state.
C21_RunNeverRaises == pc = "Raised" => FALSE

(***************************************************************************)
(* Properties of invoke_chain_with_fallback.                               *)
(***************************************************************************)
\* C22: the chain is invoked at most max_retries times; a returned result is
\* that of the first invocation that succeeded; the fallback response is
\* returned exactly when max_retries invocations all failed, whatever the
\* kinds of the errors; the call always ends by returning.
C22_BoundedRetriesThenFallback ==
    /\ [] ( /\ Len(history) <= Get(invocation).max_retries
            /\ \A i \in 1..(Len(history) - 1) : history[i] \in ChainErrors
            /\ pc \in { "invoke_chain_with_fallback", "returned" } )
    /\ [] ( pc = "returned"
            => /\ IsSome(returned)
               /\ Get(returned).kind = "result"
                  => /\ history[Len(history)] = "result"
                     /\ Get(returned).call = Len(history)
               /\ Get(returned).kind = "fallback"
                  => /\ Len(history) = Get(invocation).max_retries
                     /\ \A i \in 1..Len(history) : history[i] \in ChainErrors )

C22_Witness ==
    /\ pc = "returned"
    /\ Get(invocation).max_retries = 3
    /\ history = << "other", "overloaded", "parsing" >>
    /\ Get(returned).kind = "fallback"

(***************************************************************************)
(* Properties of runs side by side.                                        *)
(***************************************************************************)
\* C23: the files a run reports, and with them its visualization_created
\* flag, come from that run's own generated code, never from another run
\* that executed before it or at the same time.
C23_RunsIsolated ==
    \A r \in RunIds :
       IsSome(runs[r].execution_result)
          => LET result == Get(runs[r].execution_result)
             IN  /\ result.file_paths \in { << >>, << r >> }
                 /\ result.visualization_created
                       => runs[r].code.writes \/ runs[r].code.indicator

(***************************************************************************)
(* Properties of the chart nodes.                                          *)
(***************************************************************************)
\* the hint after trimming and case-folding; an absent hint counts as empty
Hint == IF IsSome(graph_type) THEN Lower(Strip(Get(graph_type))) ELSE << >>

ChartFamily(node) ==
    CASE node = "ECharts Bar" -> { G_bar, G_bar_chart, G_column }
      [] node = "ECharts Line" -> { G_line, G_line_chart }
      [] node = "ECharts Pie" -> { G_pie, G_donut, G_doughnut }
      [] node = "ECharts Scatter" -> { G_scatter, G_bubble }

\* C24: echarts_router returns one of the four chart nodes: the node whose
\* family holds the trimmed, case-folded hint, and Bar for every other hint,
\* an absent or empty one included.
C24_ChartRouting ==
    pc = "returned"
       => /\ Get(returned) \in EchartsNodes
          /\ \A node \in EchartsNodes :
                Hint \in ChartFamily(node) => Get(returned) = node
          /\ (\A node \in EchartsNodes : Hint \notin ChartFamily(node))
                => Get(returned) = "ECharts Bar"

C24_Witness ==
    /\ pc = "returned"
    /\ graph_type = Some(Padded(Upper(G_doughnut)))
    /\ returned = Some("ECharts Pie")

\* C25: a chart node whose table is absent or empty, or whose service call
\* fails, stores None in echart_code and appends exactly one error_log entry;
\* whether it failed or not the run goes on to the design-merge node, and
\* from there to END.
C25_ChartFailureIsNotFatal ==
    [][ /\ (pc \in EchartsNodes)
           => /\ pc' = "ECharts Design Enhancement"
              /\ \/ IsSome(echart_code') /\ error_log' = error_log
                 \/ /\ echart_code' = None
                    /\ error_log' = Append(error_log, "ECharts error")
              /\ (~IsSome(response_df) \/ Len(Get(response_df).rows) = 0)
                    => echart_code' = None
        /\ (pc = "ECharts Design Enhancement") => pc' = "END"
      ]_vars

C25_Witness ==
    /\ pc = "END"
    /\ IsSome(response_df) /\ Len(Get(response_df).rows) > 0
    /\ chains_present
    /\ echart_code = None
    /\ Len(error_log) >= 2
    /\ error_log[Len(error_log) - 1] = "ECharts error"

\* C26: when echart_code or echart_sample_code is missing or blank, the
\* design-merge node makes no call of the merge service, stores None in
\* designed_echart_code, appends exactly one error_log entry, leaves
\* echart_code as it is and hands over to END.
C26_MergeNeedsBothInputs ==
    [][ ( pc = "ECharts Design Enhancement"
            /\ \E o \in { echart_code, echart_sample_code } :
                  o = None \/ Get(o) \in { "", " " } )
        => /\ history' = history
           /\ designed_echart_code' = None
           /\ error_log' = Append(error_log, "Design enhancement error")
           /\ echart_code' = echart_code
           /\ pc' = "END"
      ]_vars

C26_Witness ==
    /\ pc = "END"
    /\ last = "ECharts Design Enhancement"
    /\ echart_code = Some("option = {series: [...]}")
    /\ echart_sample_code = None
    /\ designed_echart_code = None
    /\ history = << >>
    /\ error_log = << "Design enhancement error" >>

\* the non-data fields of a chart option
NonData(option) == [title |-> option.title, color |-> option.color]

\* C27: merging the same chart specification into the same template twice
\* gives the same output both times, and the non-data fields of every output
\* equal those of the template.
C27_MergeIdempotentStylePreserving ==
    ( pc = "merged twice" /\ IsSome(history[1]) /\ IsSome(history[2]) )
       => /\ history[1] = history[2]
          /\ \A i \in 1..2 :
                NonData(Get(history[i])) = NonData(Get(echart_sample_code))

(***************************************************************************)
(* Properties of RateLimiter.  The preceding 60 seconds of a time t are    *)
(* the times after t - 60 up to t.                                          *)
(***************************************************************************)
\* positions in history of the calls of is_allowed(c) that returned True at
\* a time after t - 60 and up to t
AllowedWithin(h, c, t) ==
    { i \in 1..Len(h) :
         /\ h[i].op = "is_allowed" /\ h[i].client = c /\ h[i].result = BoolV(TRUE)
         /\ h[i].time > t - 60 /\ h[i].time <= t }

\* how many requests of c the limiter holds with time t
RecordedAt(limiter, c, t) ==
    Cardinality({ i \in 1..Len(RequestsOf(limiter, c)) : RequestsOf(limiter, c)[i] = t })

\* the call the step just made, if it made one
IsCallStep(op) ==
    /\ Len(history') = Len(history) + 1
    /\ history'[Len(history')].op = op

\* C28: is_allowed(c) returns True iff fewer than requests_per_minute calls
\* of is_allowed(c) returned True in the preceding 60 seconds; the request is
\* recorded only when it returns True; no 60 seconds hold more than
\* requests_per_minute allowed requests of one client; and a call for one
\* client leaves the recorded requests of every other client as they are.
C28_RateLimit ==
    /\ [][ IsCallStep("is_allowed")
           => LET e == history'[Len(history')]
                  c == e.client
                  rpm == Get(rate_limiter).requests_per_minute
              IN  /\ e.result = BoolV(Cardinality(AllowedWithin(history, c, now)) < rpm)
                  /\ Len(RequestsOf(Get(rate_limiter'), c)) =
                        Cardinality(AllowedWithin(history', c, now))
                  /\ e.result.bool = ( RecordedAt(Get(rate_limiter'), c, now)
                                     = RecordedAt(Get(rate_limiter), c, now) + 1 )
                  /\ ~e.result.bool => ( RecordedAt(Get(rate_limiter'), c, now)
                                       = RecordedAt(Get(rate_limiter), c, now) )
                  /\ \A d \in Clients \ { c } :
                        RequestsOf(Get(rate_limiter'), d) = RequestsOf(Get(rate_limiter), d)
         ]_vars
    /\ [] ( \A c \in Clients : \A i \in 1..Len(history) :
               Cardinality(AllowedWithin(history, c, history[i].time))
                  <= Get(rate_limiter).requests_per_minute )

C28_Witness ==
    /\ Get(rate_limiter).requests_per_minute = 1
    /\ Len(history) = 4
    /\ history[1] = Call("is_allowed", "client1", 0, BoolV(TRUE))
    /\ history[2] = Call("is_allowed", "client1", 30, BoolV(FALSE))
    /\ history[3] = Call("is_allowed", "client2", 30, BoolV(TRUE))
    /\ history[4] = Call("is_allowed", "client1", 60, BoolV(TRUE))

\* C29: get_remaining(c) returns requests_per_minute minus the number of
\* c's requests allowed in the preceding 60 seconds, and 0 when that is
\* negative; it is never negative; the call leaves the recorded requests of
\* every client as they are, so no later result depends on it.
C29_Remaining ==
    [][ IsCallStep("get_remaining")
        => LET e == history'[Len(history')]
               rpm == Get(rate_limiter).requests_per_minute
               used == Cardinality(AllowedWithin(history, e.client, now))
           IN  /\ e.result = IntV(IF rpm - used > 0 THEN rpm - used ELSE 0)
               /\ e.result.int >= 0
               /\ \A d \in Clients :
                     RequestsOf(Get(rate_limiter'), d) = RequestsOf(Get(rate_limiter), d)
               /\ Get(rate_limiter').requests_per_minute = rpm
      ]_vars

C29_Witness ==
    /\ Get(rate_limiter).requests_per_minute = 2
    /\ Len(history) = 4
    /\ history[1] = Call("is_allowed", "client1", 0, BoolV(TRUE))
    /\ history[2] = Call("is_allowed", "client1", 30, BoolV(TRUE))
    /\ history[3] = Call("get_remaining", "client1", 30, IntV(0))
    /\ history[4] = Call("get_remaining", "client1", 60, IntV(1))

(***************************************************************************)
(* C30: is_blocked(ip) answers true exactly when                           *)
(* record_suspicious_activity(ip) has been called at least threshold times *)
(* since the last unblock(ip), or since creation when there was none; an   *)
(* address never seen is not blocked; recording activity for one address   *)
(* leaves the count and the block status of every other address as they    *)
(* were.                                                                   *)
(***************************************************************************)
RECURSIVE RecordedSinceUnblock(_, _)
\* the calls of record_suspicious_activity(ip) in h after the last unblock(ip)
RecordedSinceUnblock(h, ip) ==
    IF Len(h) = 0 THEN 0
    ELSE LET latest == h[Len(h)]
             front == SubSeq(h, 1, Len(h) - 1)
         IN  IF latest.client = ip /\ latest.op = "unblock" THEN 0
             ELSE IF latest.client = ip /\ latest.op = "record_suspicious_activity"
                  THEN 1 + RecordedSinceUnblock(front, ip)
                  ELSE RecordedSinceUnblock(front, ip)

NeverSeen(h, ip) == \A i \in 1..Len(h) : h[i].client # ip

C30_BlockedAtThreshold ==
    /\ [](pc = "IPBlocklist" =>
            \A i \in 1..Len(history) :
               history[i].op = "is_blocked" =>
                  LET before == SubSeq(history, 1, i - 1)
                      ip == history[i].client
                  IN  /\ history[i].result.bool
                          <=> (RecordedSinceUnblock(before, ip)
                                  >= Get(ip_blocklist).threshold)
                      /\ NeverSeen(before, ip) => ~history[i].result.bool)
    /\ [][ (pc = "IPBlocklist") =>
             \A ip \in IPs :
                history' = Append(history,
                                  Call("record_suspicious_activity", ip, now, NoneV))
                => \A other \in IPs \ { ip } :
                      /\ ActivityOf(Get(ip_blocklist'), other)
                            = ActivityOf(Get(ip_blocklist), other)
                      /\ (other \in Get(ip_blocklist').blocked_ips)
                            <=> (other \in Get(ip_blocklist).blocked_ips)
      ]_vars

C30_Witness ==
    /\ Get(ip_blocklist).threshold = 2
    /\ Len(history) = 4
    /\ history[1] = Call("record_suspicious_activity", "ip1", 0, NoneV)
    /\ history[2] = Call("record_suspicious_activity", "ip2", 0, NoneV)
    /\ history[3] = Call("record_suspicious_activity", "ip1", 0, NoneV)
    /\ history[4] = Call("is_blocked", "ip1", 0, BoolV(TRUE))
    /\ "ip2" \notin Get(ip_blocklist).blocked_ips
    /\ ActivityOf(Get(ip_blocklist), "ip2") = 1

(***************************************************************************)
(* C31: unblock(ip) leaves ip not blocked and with a count of zero, so     *)
(* that a full threshold of new activities is needed to block it again;    *)
(* it leaves the block status and the count of every other address as      *)
(* they were; for an address that is not blocked it changes nothing.       *)
(***************************************************************************)
UnblockStep(ip) == history' = Append(history, Call("unblock", ip, now, NoneV))

UnblockResets ==
    /\ [](pc = "IPBlocklist" =>
            \A ip \in IPs :
               (ip \in Get(ip_blocklist).blocked_ips)
                  <=> (ActivityOf(Get(ip_blocklist), ip) >= Get(ip_blocklist).threshold))
    /\ [][ (pc = "IPBlocklist") =>
             \A ip \in IPs :
                UnblockStep(ip) =>
                   /\ ip \notin Get(ip_blocklist').blocked_ips
                   /\ ActivityOf(Get(ip_blocklist'), ip) = 0
                   /\ \A other \in IPs \ { ip } :
                         /\ ActivityOf(Get(ip_blocklist'), other)
                               = ActivityOf(Get(ip_blocklist), other)
                         /\ (other \in Get(ip_blocklist').blocked_ips)
                               <=> (other \in Get(ip_blocklist).blocked_ips)
      ]_vars

\* C31 as stated: unblock(ip) changes nothing for an address that is not blocked.
C31_UnblockNoOpWhenNotBlocked ==
    /\ UnblockResets
    /\ [][ (pc = "IPBlocklist") =>
             \A ip \in IPs :
                (UnblockStep(ip) /\ ip \notin Get(ip_blocklist).blocked_ips)
                   => ip_blocklist' = ip_blocklist
      ]_vars

\* C31 as amended: unblock(ip) changes nothing for an address that is not
\* blocked and has no recorded suspicious activity.
C31_UnblockNoOpWhenUnseen ==
    /\ UnblockResets
    /\ [][ (pc = "IPBlocklist") =>
             \A ip \in IPs :
                (/\ UnblockStep(ip)
                 /\ ip \notin Get(ip_blocklist).blocked_ips
                 /\ ActivityOf(Get(ip_blocklist), ip) = 0)
                   => ip_blocklist' = ip_blocklist
      ]_vars

C31_Witness ==
    /\ Get(ip_blocklist).threshold = 2
    /\ Len(history) = 4
    /\ history[1] = Call("record_suspicious_activity", "ip1", 0, NoneV)
    /\ history[2] = Call("record_suspicious_activity", "ip1", 0, NoneV)
    /\ history[3] = Call("unblock", "ip1", 0, NoneV)
    /\ history[4] = Call("record_suspicious_activity", "ip1", 0, NoneV)
    /\ "ip1" \notin Get(ip_blocklist).blocked_ips
    /\ ActivityOf(Get(ip_blocklist), "ip1") = 1

(***************************************************************************)
(* C32: validate_filename answers False for every name that is empty or    *)
(* holds "..", a forward slash, a backslash or a NUL character, and        *)
(* answers True only for names made up solely of letters, digits,          *)
(* underscore, hyphen, dot and space.                                      *)
(***************************************************************************)
AllowedNameChar(c) ==
    \/ \E i \in 1..26 : Letters[i] = c \/ Capitals[i] = c
    \/ c \in Digits \cup { "_", "-", ".", " " }

Executions(node) == Cardinality({ i \in 1..Len(history) : history[i] = node })

\* C33: retry_count is changed by the Rewrite node only, by exactly one per
\* execution; the run is sent to Rewrite only while retry_count is below
\* max_retries; hence retry_count never exceeds max_retries and Rewrite is
\* executed at most max_retries times in a run.
C33_RetryCountBounded ==
    /\ [][ (pc \in GraphNodes) =>
             Get(analysis_state').retry_count =
                IF pc = "rewrite_code"
                THEN Get(analysis_state).retry_count + 1
                ELSE Get(analysis_state).retry_count
      ]_vars
    /\ [](IsSome(analysis_state) =>
            /\ pc = "rewrite_code" =>
                  Get(analysis_state).retry_count < Get(analysis_state).max_retries
            /\ Get(analysis_state).retry_count <= Get(analysis_state).max_retries
            /\ Executions("rewrite_code") <= Get(analysis_state).max_retries)

C33_Witness ==
    /\ IsSome(analysis_state)
    /\ pc = "execute_code"
    /\ Executions("rewrite_code") = 1
    /\ Get(analysis_state).retry_count = 1
    /\ Get(analysis_state).max_retries = 1

\* C34: on every conditional edge each value the router can return is a key
\* of the edge's path map, so that routing never fails during a run and a
\* node that is not the final one always has a successor.
C34_RoutingNeverFails ==
    /\ pc # "routing failed"
    /\ (IsSome(analysis_state) /\ Len(history) > 0 /\ pc # "END") =>
          pc \in GraphNodes

\* C35: code_review_edge routes to execute_code exactly when the stored
\* verdict is "approved" or retry_count >= max_retries, also when the latest
\* verdict is "needs_rewrite" or absent; execution_retry_edge routes to
\* final_results exactly when execution succeeded or retry_count >=
\* max_retries; in every other case both route to rewrite_code.
C35_RetryRouting ==
    pc = "routed" =>
       LET s == Get(analysis_state)
           exhausted == s.retry_count >= s.max_retries
           approved == s.code_review = Some([review_status |-> "approved"])
           succeeded == s.execution_result = Some([success |-> TRUE])
       IN  /\ history = << "code_review_edge" >> =>
                 /\ Get(returned) = "execute_code" <=> (approved \/ exhausted)
                 /\ Get(returned) \in { "execute_code", "rewrite_code" }
           /\ history = << "execution_retry_edge" >> =>
                 /\ Get(returned) = "final_results" <=> (succeeded \/ exhausted)
                 /\ Get(returned) \in { "final_results", "rewrite_code" }

C35_Witness ==
    /\ pc = "routed"
    /\ history = << "code_review_edge" >>
    /\ Get(analysis_state).code_review = Some([review_status |-> "needs_rewrite"])
    /\ Get(analysis_state).retry_count = 2
    /\ Get(analysis_state).max_retries = 2
    /\ returned = Some("execute_code")

(***************************************************************************)
(* C36: when the sanitized generated code ran without raising, ExecNode    *)
(* leaves in response_df the table that code produced (analysis_df when    *)
(* the code defined it, else the coercion of analysis_results) and the     *)
(* response status "completed", whether or not the summarizing service     *)
(* call that follows fails.                                                *)
(***************************************************************************)
C36_ExecutedCodeIsReported ==
    (last = "LLM Node" /\ exec_outcome = "ok") =>
       /\ response.status = "completed"
       /\ IsSome(execution_result)
       /\ IsSome(response_df)
       /\ \/ Contains(W_analysis_df, Get(safe_code))
          \/ Get(response_df) = coerce_to_dataframe(Get(execution_result))

(***************************************************************************)
(* C37: between failed attempts invoke_chain_with_fallback waits           *)
(* 2^attempt seconds plus a jitter (attempt counted from 0) only for an    *)
(* overload or rate-limit error, waits 1 second for a parsing or           *)
(* validation error, and does not wait for any other error; it never       *)
(* waits after the final attempt.                                          *)
(***************************************************************************)
\* the wait the claim gives after the attempt numbered attempt failed
ClaimedWait(outcome, attempt, max_retries) ==
    IF attempt = max_retries - 1 THEN << >>
    ELSE CASE outcome = "overloaded" -> << [seconds |-> 2 ^ attempt, jitter |-> TRUE] >>
           [] outcome = "parsing" -> << [seconds |-> 1, jitter |-> FALSE] >>
           [] OTHER -> << >>

RECURSIVE ClaimedWaits(_, _, _)
\* the waits after the first k calls of h
ClaimedWaits(h, k, max_retries) ==
    IF k = 0 THEN << >>
    ELSE ClaimedWaits(h, k - 1, max_retries) \o ClaimedWait(h[k], k - 1, max_retries)

C37_BackoffWaits ==
    (pc \in { "invoke_chain_with_fallback", "returned" } /\ IsSome(invocation)
        /\ "max_retries" \in DOMAIN Get(invocation)) =>
       Get(invocation).slept =
          ClaimedWaits(history, Len(history), Get(invocation).max_retries)

C37_Witness ==
    /\ pc = "returned"
    /\ Get(invocation).max_retries = 3
    /\ history = << "parsing", "overloaded", "overloaded" >>
    /\ Get(invocation).slept = << [seconds |-> 1, jitter |-> FALSE],
                                  [seconds |-> 2, jitter |-> TRUE] >>
    /\ Get(returned).kind = "fallback"

(***************************************************************************)
(* C38: the task store.                                                    *)
(***************************************************************************)
TerminalStatuses == { "completed", "failed" }

\* the handler of every stored entry is known, an entry is "processing" while
\* its handler runs and "completed" or "failed" once the handler has finished
EntryFollowsHandler ==
    \A t \in DOMAIN analysis_results :
       /\ t \in DOMAIN handlers
       /\ analysis_results[t].status \in TerminalStatuses \cup { "processing" }
       /\ handlers[t].at # "finished" => analysis_results[t].status = "processing"
       /\ handlers[t].at = "finished" =>
             analysis_results[t].status \in TerminalStatuses

\* a step leaves every terminal entry as it is
TerminalEntryKept ==
    \A t \in DOMAIN analysis_results :
       analysis_results[t].status \in TerminalStatuses =>
          /\ t \in DOMAIN analysis_results'
          /\ analysis_results'[t] = analysis_results[t]

\* a step that answers a result fetch leaves the store alone and answers by
\* the entry's status, with a body only for a completed entry
FetchAnswersByStatus ==
    returned' # returned =>
       LET answer == Get(returned')
           t == answer.task
       IN  /\ analysis_results' = analysis_results
           /\ handlers' = handlers
           /\ t \notin DOMAIN analysis_results <=> answer.status_code = 404
           /\ t \in DOMAIN analysis_results =>
                 /\ analysis_results[t].status = "processing" <=>
                       answer.status_code = 202
                 /\ analysis_results[t].status = "failed" =>
                       answer.status_code = 500
                 /\ IsSome(answer.body) =>
                       /\ analysis_results[t].status = "completed"
                       /\ answer.status_code = 200
                       /\ answer.body = analysis_results[t].result
           /\ answer.status_code = 200 => IsSome(answer.body)

====
